---- MODULE Spec2Model ----
(***************************************************************************)
(* Model of the lua-cli "deploy" (compile) command and the commands around *)
(* it.  Source text is a sequence of atoms: every atom is a run of         *)
(* characters that no regular expression of the program splits (a word     *)
(* piece, one punctuation character, one space or one newline).  Adjacent  *)
(* word atoms form one identifier, so "WeatherServiceV2" is                *)
(* <<"Weather","Service","V2">> and String.includes / un-anchored regular  *)
(* expressions see the same substrings as they do on characters.           *)
(***************************************************************************)
EXTENDS Integers, Sequences, FiniteSets, TLC

\* ------------------------------------------------------------------------
\* Text primitives
\* ------------------------------------------------------------------------

EOT == "<eot>"

Punct == {" ", "\n", "{", "}", "(", ")", ";", ":", ",", "=", ".", "\"", "'",
          "=>", "<", ">", "+", "/", "[", "]", "-"}

IsSpace(a) == a \in {" ", "\n"}

IsWord(a) == a \notin (Punct \cup {EOT})

At(t, i) == IF i >= 1 /\ i <= Len(t) THEN t[i] ELSE EOT

RECURSIVE SkipSpaces(_, _)
SkipSpaces(t, i) == IF IsSpace(At(t, i)) THEN SkipSpaces(t, i + 1) ELSE i

RECURSIVE WordEnd(_, _)
WordEnd(t, i) == IF IsWord(At(t, i)) THEN WordEnd(t, i + 1) ELSE i

\* JavaScript computes a value before it passes it on: v first, then F(v)
Strict(v, F(_)) == CASE v = v -> F(v)

\* The least element of a set of positions, 0 for the empty set.
First(S) == IF S = {} THEN 0 ELSE CHOOSE x \in S : \A y \in S : x <= y

\* The end of the run of atoms outside S that starts at i.
NotEnd(t, i, S) == First({j \in i..Len(t) : t[j] \in S} \cup {Len(t) + 1})

RECURSIVE Flatten(_)
Flatten(ss) == IF ss = <<>> THEN <<>> ELSE Head(ss) \o Flatten(Tail(ss))

RECURSIVE Join(_, _)
Join(ss, sep) ==
    IF ss = <<>> THEN <<>>
    ELSE IF Len(ss) = 1 THEN ss[1]
    ELSE ss[1] \o sep \o Join(Tail(ss), sep)

StartsWithAt(t, i, p) ==
    /\ i + Len(p) - 1 <= Len(t)
    /\ \A k \in 1..Len(p) : t[i + k - 1] = p[k]

\* String.prototype.includes
Includes(t, p) == \E i \in 1..(Len(t) - Len(p) + 1) : StartsWithAt(t, i, p)

\* String.prototype.startsWith
StartsWith(t, p) == StartsWithAt(t, 1, p)

\* ------------------------------------------------------------------------
\* Regular expressions.  A pattern is a sequence of elements:
\*   Lit(a)      the characters of atom a
\*   OneOf(S)    one atom of S                       ["'] , (?:const|let|var)
\*   S0, S1      \s*  and  \s+
\*   W(n)        (\w+)  captured as group n (0: not captured)
\*   Not0(S,n)   ([^S]*)      Not1(S,n)   ([^S]+)
\*   Lazy(n)     ([\s\S]*?)
\*   Opt(p)      (?:p)?       Alt(p, q)   (?:p|q)
\* In every pattern of the program a greedy \w+, \s* or [^S]* is followed
\* by an element that cannot match what it consumed, so the maximal run is
\* the only candidate and no backtracking into it is needed.
\* ------------------------------------------------------------------------

Lit(a) == [k |-> "lit", a |-> a]
OneOf(S) == [k |-> "oneof", s |-> S]
S0 == [k |-> "s0"]
S1 == [k |-> "s1"]
W(n) == [k |-> "w", cap |-> n]
Not0(S, n) == [k |-> "not0", s |-> S, cap |-> n]
Not1(S, n) == [k |-> "not1", s |-> S, cap |-> n]
Lazy(n) == [k |-> "lazy", cap |-> n]
Opt(p) == [k |-> "opt", p |-> p]
Alt(p, q) == [k |-> "alt", p |-> p, q |-> q]

Lits(as) == [i \in 1..Len(as) |-> Lit(as[i])]

NoMatch == [s |-> 0, e |-> 0, c |-> <<>>]

SetCap(caps, n, v) == IF n = 0 THEN caps ELSE (n :> v) @@ caps

\* Lit and OneOf match exactly one atom each.  Single(pat) is the number of
\* such elements pat starts with, and Singles holds when the first w
\* elements of pat match the w atoms of t from position i.
Single(pat) ==
    LET n == First({k \in DOMAIN pat : pat[k].k \notin {"lit", "oneof"}})
    IN IF n = 0 THEN Len(pat) ELSE n - 1

Singles(t, i, pat, w) ==
    \A k \in 1..w : IF pat[k].k = "lit" THEN At(t, i + k - 1) = pat[k].a
                     ELSE At(t, i + k - 1) \in pat[k].s

RECURSIVE M(_, _, _, _)

\* Match pattern pat at position i of t; the result's e is the position
\* after the match, 0 when there is none.
M(t, i, pat, caps) ==
    IF pat = <<>> THEN [s |-> 0, e |-> i, c |-> caps]
    ELSE LET h == Head(pat)
             r == Tail(pat)
             \* the rest after the run i..j-1 of at least min atoms,
             \* captured as group h.cap
             Run(j, min) ==
                 IF j >= i + min
                 THEN M(t, j, r, SetCap(caps, h.cap, SubSeq(t, i, j - 1)))
                 ELSE NoMatch
             \* m, or the alternative q when m is no match
             Or(m, q) == IF m.e # 0 THEN m ELSE M(t, i, q \o r, caps)
             \* the rest after the w elements of one atom each
             Skip(w) ==
                 IF Singles(t, i, pat, w)
                 THEN M(t, i + w, SubSeq(pat, w + 1, Len(pat)), caps)
                 ELSE NoMatch
         IN CASE h.k \in {"lit", "oneof"} -> Skip(Single(pat))
              [] h.k = "s0" -> M(t, SkipSpaces(t, i), r, caps)
              [] h.k = "s1" ->
                   IF IsSpace(At(t, i)) THEN M(t, SkipSpaces(t, i), r, caps)
                   ELSE NoMatch
              [] h.k = "w" -> Run(WordEnd(t, i), 1)
              [] h.k = "not0" -> Run(NotEnd(t, i, h.s), 0)
              [] h.k = "not1" -> Run(NotEnd(t, i, h.s), 1)
              [] h.k = "lazy" ->
                   Run(First({n \in i..(Len(t) + 1) :
                                M(t, n, r, caps).e # 0}), 0)
              [] h.k = "opt" -> Or(M(t, i, h.p \o r, caps), <<>>)
              [] h.k = "alt" -> Or(M(t, i, h.p \o r, caps), h.q)

\* RegExp.prototype.exec with lastIndex = from - 1: the leftmost match.
\* ms[n] is the match at position n.
Exec(t, pat, from) ==
    LET Leftmost(ms) ==
            LET i == First({n \in DOMAIN ms : ms[n].e # 0})
            IN IF i = 0 THEN NoMatch ELSE [ms[i] EXCEPT !.s = i]
    IN Leftmost([n \in from..Len(t) |-> M(t, n, pat, <<>>)])

\* String.prototype.match without the g flag
Match(t, pat) == Exec(t, pat, 1)

\* Capture group n of a match; an undefined group reads as the empty text.
Cap(m, n) == IF n \in DOMAIN m.c THEN m.c[n] ELSE <<>>

\* All matches of a global regular expression, in scan order.
RECURSIVE ExecAll(_, _, _)
ExecAll(t, pat, from) ==
    LET Rest(m) ==
            IF m.e = 0 THEN <<>>
            ELSE <<m>>
                 \o ExecAll(t, pat, IF m.e > m.s THEN m.e ELSE m.e + 1)
    IN Rest(Exec(t, pat, from))

\* String.prototype.replace(/pat/g, '')
RECURSIVE Remove(_, _, _)
Remove(t, pat, from) ==
    LET Rest(m) ==
            IF m.e = 0 THEN SubSeq(t, from, Len(t))
            ELSE SubSeq(t, from, m.s - 1) \o Remove(t, pat, m.e)
    IN Rest(Exec(t, pat, from))

\* ------------------------------------------------------------------------
\* deploy.ts: the regular expressions
\* ------------------------------------------------------------------------

Quotes == {"\"", "'"}

inlineAddToolRegex ==
    <<Lit("skill"), Lit("."), Lit("addTool"), Lit("("), S0, Lit("{"),
      Lazy(1), Lit("}"), S0, Lit(")")>>

nameRegex ==
    <<Lit("name"), Lit(":"), S0, OneOf(Quotes), Not1(Quotes, 1), OneOf(Quotes)>>

descriptionRegex ==
    <<Lit("description"), Lit(":"), S0, OneOf(Quotes), Not1(Quotes, 1),
      OneOf(Quotes)>>

inputSchemaRegex == <<Lit("inputSchema"), Lit(":"), S0, W(1)>>

outputSchemaRegex == <<Lit("outputSchema"), Lit(":"), S0, W(1)>>

executeRegex ==
    <<Lit("execute"), Lit(":"), S0, Lit("async"), S0, Lit("("),
      Not0({")"}, 0), Lit(")"), S0, Lit("=>"), S0, Lit("{"), Lazy(1), Lit("}")>>

classAddToolRegex ==
    <<Lit("skill"), Lit("."), Lit("addTool"), Lit("("), S0, Lit("new"), S1,
      W(1), Lit("("), Lit(")"), S0, Lit(")")>>

schemaRegex(schemaVar) ==
    <<Lit("const"), S1>> \o Lits(schemaVar) \o
    <<S0, Lit("="), S0, Lit("z"), Lit("."), Lit("object"), Lit("("), Lit("{"),
      Lazy(1), Lit("}"), Lit(")"), Lit(";")>>

fieldRegex ==
    <<W(1), Lit(":"), S0, Lit("z"), Lit("."), W(2), Lit("("), Lit(")")>>

allImportRegex ==
    <<Lit("import"), S1,
      Alt(<<Lit("{"), Not1({"}"}, 1), Lit("}")>>, <<W(2)>>),
      S1, Lit("from"), S1, OneOf(Quotes), Not1(Quotes, 3), OneOf(Quotes)>>

classRegex ==
    <<Lit("class"), S1, W(1), Opt(<<S1, Lit("extends"), S1, W(0)>>), S0,
      Lit("{")>>

Decl == {"const", "let", "var"}

variableRegex(className) ==
    <<OneOf(Decl), S1, W(1), S0, Lit("="), S0, Lit("new"), S1>> \o
    Lits(className) \o <<S0, Lit("("), Not0({")"}, 0), Lit(")"), Lit(";")>>

functionRegex ==
    <<Opt(<<Lit("async"), S1>>), Lit("function"), S1, W(1), S0, Lit("("),
      Not0({")"}, 0), Lit(")"), S0, Lit("{"), Lazy(2), Lit("\n"), Lit("}")>>

varRegex ==
    <<OneOf(Decl), S1, W(1), S0, Lit("="), S0, Not1({";"}, 2), Lit(";")>>

instantiationRegex ==
    <<OneOf(Decl), S1, W(1), S0, Lit("="), S0, Lit("new"), S1, W(2),
      Lit("("), Not0({")"}, 0), Lit(")"), Lit(";")>>

\* ------------------------------------------------------------------------
\* Schema Translator
\* ------------------------------------------------------------------------

\* JsonType with every case falling to the default
JsonTypeDefault(fieldType) == "string"

JsonType(fieldType) ==
    IF fieldType = <<"number">> THEN "number"
    ELSE IF fieldType = <<"boolean">> THEN "boolean"
    ELSE "string"

\* properties[fieldName] = v on a JavaScript object: a key keeps the place
\* of its first insertion.
RECURSIVE SetProp(_, _, _)
SetProp(props, key, v) ==
    IF props = <<>> THEN <<[name |-> key, type |-> v]>>
    ELSE IF Head(props).name = key
         THEN <<[name |-> key, type |-> v]>> \o Tail(props)
         ELSE <<Head(props)>> \o SetProp(Tail(props), key, v)

RECURSIVE PropsOf(_, _)
PropsOf(ms, props) ==
    IF ms = <<>> THEN props
    ELSE PropsOf(Tail(ms),
                 SetProp(props, Cap(Head(ms), 1), JsonType(Cap(Head(ms), 2))))

parseZodProperties(schemaContent) ==
    PropsOf(ExecAll(schemaContent, fieldRegex, 1), <<>>)

extractRequiredFields(schemaContent) ==
    LET Names(ms) == [i \in 1..Len(ms) |-> Cap(ms[i], 1)]
    IN Names(ExecAll(schemaContent, fieldRegex, 1))

\* hasRequired: whether the object has a "required" key at all.
convertSchemaToJSON(schemaVar, indexContent) ==
    LET Convert(m) ==
            IF m.e # 0
            THEN [type |-> "object",
                  properties |-> parseZodProperties(Cap(m, 1)),
                  hasRequired |-> TRUE,
                  required |-> extractRequiredFields(Cap(m, 1))]
            ELSE [type |-> "object", properties |-> <<>>,
                  hasRequired |-> FALSE, required |-> <<>>]
    IN Convert(Exec(indexContent, schemaRegex(schemaVar), 1))


\* ------------------------------------------------------------------------
\* External Package Bundler
\* ------------------------------------------------------------------------

\* namedImports.split(',')
RECURSIVE SplitOn(_, _)
SplitOn(t, sep) ==
    LET i == First({n \in 1..Len(t) : t[n] = sep})
    IN IF i = 0 THEN <<t>>
       ELSE <<SubSeq(t, 1, i - 1)>> \o SplitOn(SubSeq(t, i + 1, Len(t)), sep)

RECURSIVE TrimLeft(_)
TrimLeft(t) == IF t # <<>> /\ IsSpace(Head(t)) THEN TrimLeft(Tail(t)) ELSE t

RECURSIVE TrimRight(_)
TrimRight(t) ==
    IF t # <<>> /\ IsSpace(t[Len(t)]) THEN TrimRight(SubSeq(t, 1, Len(t) - 1))
    ELSE t

\* String.prototype.trim
Trim(t) == TrimRight(TrimLeft(t))

\* namedImports.split(',').map(imp => imp.trim())
ImportsList(namedImports) ==
    LET parts == SplitOn(namedImports, ",")
    IN [i \in 1..Len(parts) |-> Trim(parts[i])]

\* What esbuild writes to the output file for a package.
BundledContent(packagePath) ==
    <<"module", ".", "exports", " ", "=", " ", "lib", "_">> \o packagePath
        \o <<";">>

createWorkingAxiosImplementation ==
    <<"\n", "const", " ", "axios", " ", "=", " ", "{", "\n",
      " ", "get", ":", " ", "async", " ", "(", "url", ")", " ", "=>", " ",
      "fetch", "(", "url", ")", "\n", "}", ";", "\n">>

EntryFile(packagePath) == [pkg |-> packagePath, kind |-> "entry"]
OutputFile(packagePath) == [pkg |-> packagePath, kind |-> "bundle"]

BundleOutcomes == {"ok", "throws", "errors", "nooutput"}

\* bundler maps a package to what the build does for it; a package that is
\* not installed cannot be resolved and the build rejects.
Outcome(bundler, packagePath) ==
    IF packagePath \in DOMAIN bundler THEN bundler[packagePath] ELSE "throws"

\* outcome: what the build does for this package (the environment's part).
\* The result carries the returned string (null: TRUE for a null return),
\* the temporary files still on disk on return, and whether it warned.
bundlePackageCode(packagePath, namedImports, defaultImport, outcome) ==
    LET importsList == ImportsList(namedImports)
        bundledContent == BundledContent(packagePath)
        iife == <<"(", "function", "(", ")", " ", "{", "\n">> \o bundledContent
        finalCode ==
            IF defaultImport # <<>>
            THEN <<"const", " ">> \o defaultImport \o <<" ", "=", " ">> \o iife
                 \o <<"\n", " ", " ", "return", " ", "module", ".", "exports",
                      ";", "\n", "}", ")", "(", ")", ";", "\n">>
            ELSE IF namedImports # <<>>
            THEN iife \o <<"\n", "}", ")", "(", ")", ";", "\n">>
                 \o <<"const", " ", "{", " ">>
                 \o Join(importsList, <<",", " ">>)
                 \o <<" ", "}", " ", "=", " ", "module", ".", "exports", ";",
                      "\n">>
            ELSE iife \o <<"\n", "}", ")", "(", ")", ";", "\n">>
    IN CASE outcome = "ok" ->
              [null |-> FALSE, code |-> finalCode, left |-> {},
               warned |-> FALSE, pkg |-> packagePath]
         [] outcome = "errors" ->
              [null |-> TRUE, code |-> <<>>,
               left |-> {EntryFile(packagePath)},
               warned |-> TRUE, pkg |-> packagePath]
         [] outcome = "nooutput" ->
              [null |-> TRUE, code |-> <<>>,
               left |-> {EntryFile(packagePath)},
               warned |-> TRUE, pkg |-> packagePath]
         [] outcome = "throws" ->
              IF packagePath = <<"axios">>
              THEN [null |-> FALSE, code |-> createWorkingAxiosImplementation,
                    left |-> {EntryFile(packagePath)},
                    warned |-> TRUE, pkg |-> packagePath]
              ELSE [null |-> TRUE, code |-> <<>>,
                    left |-> {EntryFile(packagePath)},
                    warned |-> TRUE, pkg |-> packagePath]

\* ------------------------------------------------------------------------
\* Dependency Closure Resolver (inline tools)
\* ------------------------------------------------------------------------

\* Set.prototype.add on an insertion-ordered Set of strings
SetAdd(set, x) ==
    IF \E i \in 1..Len(set) : set[i] = x THEN set ELSE Append(set, x)

ZodRequire(namedImports, defaultImport, executeBody, content) ==
    LET importsList == ImportsList(namedImports)
        used(imp) == Includes(executeBody, imp)
                     \/ Includes(content, imp \o <<".">>)
        usedImports == SelectSeq(importsList, used)
    IN IF namedImports # <<>>
       THEN IF Len(usedImports) > 0
            THEN <<<<"const", " ", "{", " ">>
                   \o Join(usedImports, <<",", " ">>)
                   \o <<" ", "}", " ", "=", " ", "require", "(", "'", "zod",
                        "'", ")", ";">>>>
            ELSE <<>>
       ELSE IF defaultImport # <<>>
       THEN <<<<"const", " ">> \o defaultImport
              \o <<" ", "=", " ", "require", "(", "'", "zod", "'", ")", ";">>>>
       ELSE <<>>

IsLocalPath(packagePath) ==
    StartsWith(packagePath, <<".", "/">>)
    \/ StartsWith(packagePath, <<".", ".", "/">>)

IsLuaCliPath(packagePath) == StartsWith(packagePath, <<"lua", "-", "cli">>)

\* Step 1 of createSelfContainedExecute: st.pk is the bundledPackages Set,
\* st.calls the bundlePackageCode results in call order.
RECURSIVE InlineImports(_, _, _, _, _)
InlineImports(ms, executeBody, indexContent, bundler, st) ==
    IF ms = <<>> THEN st
    ELSE LET namedImports == Cap(Head(ms), 1)
             defaultImport == Cap(Head(ms), 2)
             packagePath == Cap(Head(ms), 3)
             Zod(z) == IF z # <<>> THEN [st EXCEPT !.pk = SetAdd(@, z[1])]
                       ELSE st
             Bundle(r) ==
                 [pk |-> IF r.null THEN st.pk ELSE SetAdd(st.pk, r.code),
                  calls |-> Append(st.calls, r)]
             st1 ==
               IF IsLocalPath(packagePath) \/ IsLuaCliPath(packagePath)
               THEN st
               ELSE IF packagePath = <<"zod">>
               THEN Zod(ZodRequire(namedImports, defaultImport, executeBody,
                                   indexContent))
               ELSE Bundle(bundlePackageCode(packagePath, namedImports,
                                             defaultImport,
                                             Outcome(bundler, packagePath)))
         IN Strict(st1, LAMBDA s : InlineImports(Tail(ms), executeBody,
                                                 indexContent, bundler, s))

\* The brace counting loop: position of the brace closing the first one at
\* or after position from, 0 when the text ends first.
\* The loop only acts on braces, so it is stepped from brace to brace.
NextBrace(t, i) == First({n \in i..Len(t) : t[n] \in {"{", "}"}})

\* The scan taking the end of the text for the closing brace of a class
\* that has none
RECURSIVE ClassEndOrLast(_, _, _)
ClassEndOrLast(t, from, braceCount) ==
    LET i == NextBrace(t, from)
    IN IF i = 0 THEN Len(t)
       ELSE IF t[i] = "{" THEN ClassEndOrLast(t, i + 1, braceCount + 1)
       ELSE IF braceCount - 1 = 0 THEN i
       ELSE ClassEndOrLast(t, i + 1, braceCount - 1)

RECURSIVE ClassEnd(_, _, _)
ClassEnd(t, from, braceCount) ==
    LET i == NextBrace(t, from)
    IN IF i = 0 THEN 0
       ELSE IF t[i] = "{" THEN ClassEnd(t, i + 1, braceCount + 1)
       ELSE IF braceCount - 1 = 0 THEN i
       ELSE ClassEnd(t, i + 1, braceCount - 1)

ClassIsUsed(className, executeBody, indexContent) ==
    LET Referenced(vs) ==
            \E i \in 1..Len(vs) : Includes(executeBody, Cap(vs[i], 1))
    IN \/ Includes(executeBody, <<"new", " ">> \o className)
       \/ Includes(executeBody, className \o <<".">>)
       \/ Includes(executeBody, className \o <<"(">>)
       \/ Referenced(ExecAll(indexContent, variableRegex(className), 1))

\* Step 2
RECURSIVE InlineClasses(_, _, _)
InlineClasses(ms, executeBody, indexContent) ==
    IF ms = <<>> THEN <<>>
    ELSE LET className == Cap(Head(ms), 1)
             classStart == Head(ms).s
             classEnd == ClassEnd(indexContent, classStart, 0)
             rest == InlineClasses(Tail(ms), executeBody, indexContent)
         IN IF classEnd # 0 /\ ClassIsUsed(className, executeBody, indexContent)
            THEN <<SubSeq(indexContent, classStart, classEnd)>> \o rest
            ELSE rest

\* Step 3
FunctionFragment(functionName, functionBody) ==
    <<"function", " ">> \o functionName \o <<"(", ")", " ", "{", "\n">>
        \o functionBody \o <<"\n", "}">>

RECURSIVE InlineFunctions(_, _)
InlineFunctions(ms, executeBody) ==
    IF ms = <<>> THEN <<>>
    ELSE LET rest == InlineFunctions(Tail(ms), executeBody)
         IN IF Includes(executeBody, Cap(Head(ms), 1))
            THEN <<FunctionFragment(Cap(Head(ms), 1), Cap(Head(ms), 2))>>
                 \o rest
            ELSE rest

\* Step 4: st.declared is declaredVars, st.deps the fragments pushed.
VarFragment(varName, varValue) ==
    <<"const", " ">> \o varName \o <<" ", "=", " ">> \o varValue \o <<";">>

RECURSIVE InlineVars(_, _, _)
InlineVars(ms, executeBody, st) ==
    IF ms = <<>> THEN st
    ELSE LET varName == Cap(Head(ms), 1)
             varValue == Cap(Head(ms), 2)
             st1 ==
               IF Includes(varValue, <<"new", " ">>)
                  /\ Includes(varValue, <<"(", ")">>)
               THEN st
               ELSE IF varName \in st.declared THEN st
               ELSE IF Includes(executeBody, varName)
               THEN [declared |-> st.declared \cup {varName},
                     deps |-> Append(st.deps, VarFragment(varName, varValue))]
               ELSE st
         IN Strict(st1, LAMBDA s : InlineVars(Tail(ms), executeBody, s))

\* Step 5
InstantiationFragment(instanceName, className) ==
    <<"const", " ">> \o instanceName \o <<" ", "=", " ", "new", " ">>
        \o className \o <<"(", ")", ";">>

RECURSIVE InlineInstantiations(_, _, _)
InlineInstantiations(ms, executeBody, st) ==
    IF ms = <<>> THEN st
    ELSE LET instanceName == Cap(Head(ms), 1)
             className == Cap(Head(ms), 2)
             st1 ==
               IF instanceName \in st.declared THEN st
               ELSE IF Includes(executeBody, instanceName)
               THEN [declared |-> st.declared \cup {instanceName},
                     deps |-> Append(st.deps,
                                InstantiationFragment(instanceName, className))]
               ELSE st
         IN Strict(st1, LAMBDA s : InlineInstantiations(Tail(ms),
                                                        executeBody, s))

\* Step 6: the type annotation substitutions, in the order of the code
TypeAnn(w) == <<Lit(":"), S0, Lit(w)>>
GenericAnn(w) == <<Lit(":"), S0, Lit(w), Lit("<"), Not1({">"}, 0), Lit(">")>>

RECURSIVE RemoveEach(_, _)
RemoveEach(t, pats) ==
    IF pats = <<>> THEN t
    ELSE Strict(Remove(t, Head(pats), 1), LAMBDA r : RemoveEach(r, Tail(pats)))

StripTypes(t) ==
    RemoveEach(t, <<TypeAnn("string"), TypeAnn("number"), TypeAnn("boolean"),
                    TypeAnn("any"), TypeAnn("void"), TypeAnn("object"),
                    GenericAnn("Array"), GenericAnn("Promise"),
                    GenericAnn("Record")>>)

CleanDependency(dep) ==
    IF Includes(dep, <<"require", "(">>) \/ Includes(dep, <<"import", " ">>)
    THEN dep
    ELSE StripTypes(dep)

\* text.split('\n').join('\n  ')
Indent(t) == Join(SplitOn(t, "\n"), <<"\n", " ", " ">>)

ExecuteHead == <<"async", " ", "(", "input", ")", " ", "=>", " ", "{", "\n">>

\* OrderDependencies with the instantiation step run first
InstantiationsFirst(classes, functions, variables, instantiations) ==
    instantiations \o classes \o functions \o variables

\* The order in which steps 2 to 5 push onto the dependencies array
OrderDependencies(classes, functions, variables, instantiations) ==
    classes \o functions \o variables \o instantiations

createSelfContainedExecute(executeBody, indexContent, bundler) ==
    LET Template(imp, cleanDependencyCode, cleanExecuteBody) ==
            [execute |->
                 ExecuteHead
                 \o (IF cleanDependencyCode # <<>>
                     THEN <<" ", " ">> \o Indent(cleanDependencyCode)
                          \o <<"\n">>
                     ELSE <<>>)
                 \o <<" ", " ">> \o Trim(cleanExecuteBody) \o <<"\n", "}">>,
             calls |-> imp.calls]
        Clean(allDependencies) ==
            Join([i \in 1..Len(allDependencies) |->
                      CleanDependency(allDependencies[i])], <<"\n">>)
        Instantiations(vars) ==
            InlineInstantiations(
                ExecAll(indexContent, instantiationRegex, 1),
                executeBody, [declared |-> vars.declared, deps |-> <<>>])
        Dependencies(vars) ==
            OrderDependencies(
                InlineClasses(ExecAll(indexContent, classRegex, 1),
                              executeBody, indexContent),
                InlineFunctions(ExecAll(indexContent, functionRegex, 1),
                                executeBody),
                vars.deps, Instantiations(vars).deps)
        Finish(imp, cleanDependencyCode) ==
            Strict(StripTypes(executeBody),
                   LAMBDA cleanExecuteBody :
                       Template(imp, cleanDependencyCode, cleanExecuteBody))
        Collect(imp, vars) ==
            Strict(Clean(imp.pk \o Dependencies(vars)),
                   LAMBDA cleanDependencyCode :
                       Finish(imp, cleanDependencyCode))
        Resolve(imp) ==
            Strict(InlineVars(ExecAll(indexContent, varRegex, 1), executeBody,
                              [declared |-> {}, deps |-> <<>>]),
                   LAMBDA vars : Collect(imp, vars))
    IN Strict(InlineImports(ExecAll(indexContent, allImportRegex, 1),
                            executeBody, indexContent, bundler,
                            [pk |-> <<>>, calls |-> <<>>]),
              Resolve)


\* ------------------------------------------------------------------------
\* Class-based tools
\* ------------------------------------------------------------------------

classImportRegex(className) ==
    <<Lit("import"), S1>> \o Lits(className) \o
    <<S1, Lit("from"), S1, OneOf(Quotes), Not1(Quotes, 1), OneOf(Quotes)>>

thisNameRegex ==
    <<Lit("this"), Lit("."), Lit("name"), S0, Lit("="), S0, OneOf(Quotes),
      Not1(Quotes, 1), OneOf(Quotes)>>

thisDescriptionRegex ==
    <<Lit("this"), Lit("."), Lit("description"), S0, Lit("="), S0,
      OneOf(Quotes), Not1(Quotes, 1), OneOf(Quotes)>>

classInputSchemaRegex ==
    <<Lit("const"), S1, W(1), S0, Lit("="), S0, Lit("z"), Lit("."),
      Lit("object"), Lit("(")>>

classOutputSchemaRegex ==
    <<Lit("const"), S1, W(1), S0, Lit("="), S0, Lit("z"), Lit("."),
      Lit("object"), Lit("(")>>

executeMethodRegex ==
    <<Lit("async"), S1, Lit("execute"), S0, Lit("("), Not0({")"}, 0),
      Lit(")"), S0, Lit("{"), Lazy(1), Lit("}")>>

constructorRegex ==
    <<Lit("constructor"), S0, Lit("("), Not0({")"}, 0), Lit(")"), S0,
      Lit("{"), Lazy(1), Lit("}")>>

serviceInstantiationRegex ==
    <<Lit("this"), Lit("."), W(1), S0, Lit("="), S0, Lit("new"), S1, W(2),
      Lit("("), Not0({")"}, 0), Lit(")"), Lit(";")>>

thisPropertyRegex == <<Lit("this"), Lit("."), W(1)>>

NoFile == [exists |-> FALSE, text |-> <<>>]
File(t) == [exists |-> TRUE, text |-> t]

\* fs.existsSync / fs.readFileSync on the project's .ts files; files maps a
\* path without its ".ts" suffix to the file.
ReadTs(files, p) == IF p \in DOMAIN files THEN files[p] ELSE NoFile

\* String.prototype.replace(string, '') : the first occurrence only
RemoveFirst(t, p) ==
    LET i == First({n \in 1..Len(t) : StartsWithAt(t, n, p)})
    IN IF i = 0 THEN t
       ELSE SubSeq(t, 1, i - 1) \o SubSeq(t, i + Len(p), Len(t))

\* path.join(process.cwd(), importPath.replace('./', '') + '.ts')
ToolFilePath(importPath) == RemoveFirst(importPath, <<".", "/">>)

\* path.resolve(path.join(process.cwd(), 'tools'), packagePath + '.ts')
ServiceFilePath(packagePath) ==
    IF StartsWith(packagePath, <<".", ".", "/">>)
    THEN SubSeq(packagePath, 4, Len(packagePath))
    ELSE IF StartsWith(packagePath, <<".", "/">>)
    THEN <<"tools", "/">> \o SubSeq(packagePath, 3, Len(packagePath))
    ELSE <<"tools", "/">> \o packagePath

\* The while loop of the service class extraction: the position after the
\* brace that brings braceCount to 0, 0 when the text ends first.
RECURSIVE ServiceEnd(_, _, _)
ServiceEnd(t, endIndex, braceCount) ==
    LET i == NextBrace(t, endIndex)
    IN IF braceCount = 0 THEN endIndex
       ELSE IF i = 0 THEN 0
       ELSE IF t[i] = "{" THEN ServiceEnd(t, i + 1, braceCount + 1)
       ELSE ServiceEnd(t, i + 1, braceCount - 1)

StripClassTypes(t) ==
    RemoveEach(t, <<TypeAnn("string"), TypeAnn("number"), TypeAnn("boolean"),
                    TypeAnn("any"), TypeAnn("void"), GenericAnn("Promise"),
                    GenericAnn("Record")>>)

AxiosRequire ==
    <<"const", " ", "axios", " ", "=", " ", "require", "(", "'", "axios", "'",
      ")", ";">>

AxiosImportText ==
    <<"import", " ", "axios", " ", "from", " ", "\"", "axios", "\"">>

\* The local service import branch: st with the axios require and the
\* service class added.
ServiceImport(packagePath, files, st) ==
    LET Push(serviceContent, classMatch, startIndex, endIndex) ==
            [st EXCEPT
               !.pk = IF Includes(serviceContent, AxiosImportText)
                      THEN SetAdd(@, AxiosRequire) ELSE @,
               !.deps = IF classMatch.e # 0 /\ endIndex # 0
                        THEN Append(@, <<"class", " ">> \o Cap(classMatch, 1)
                                       \o <<" ", "{", "\n">>
                                       \o StripClassTypes(
                                              SubSeq(serviceContent,
                                                     startIndex + 1,
                                                     endIndex - 2))
                                       \o <<"\n", "}">>)
                        ELSE @]
        Extract(serviceContent, classMatch, startIndex) ==
            Push(serviceContent, classMatch, startIndex,
                 ServiceEnd(serviceContent, startIndex + 1, 1))
        Service(serviceContent, classMatch) ==
            Extract(serviceContent, classMatch, classMatch.e - 1)
        Read(f) ==
            IF ~f.exists THEN st
            ELSE Service(f.text, Exec(f.text, classRegex, 1))
    IN Read(ReadTs(files, ServiceFilePath(packagePath)))

RECURSIVE ClassImports(_, _, _, _, _, _)
ClassImports(ms, executeBody, toolContent, files, bundler, st) ==
    IF ms = <<>> THEN st
    ELSE LET namedImports == Cap(Head(ms), 1)
             defaultImport == Cap(Head(ms), 2)
             packagePath == Cap(Head(ms), 3)
             Zod(z) == IF z # <<>> THEN [st EXCEPT !.pk = SetAdd(@, z[1])]
                       ELSE st
             Bundle(r) ==
                 [st EXCEPT !.pk = IF r.null THEN @ ELSE SetAdd(@, r.code),
                            !.calls = Append(@, r)]
             st1 ==
               IF IsLuaCliPath(packagePath) THEN st
               ELSE IF packagePath = <<"zod">>
               THEN Zod(ZodRequire(namedImports, defaultImport, executeBody,
                                   toolContent))
               ELSE IF packagePath = <<"axios">>
               THEN [st EXCEPT !.pk = SetAdd(@, AxiosRequire)]
               ELSE IF IsLocalPath(packagePath)
               THEN ServiceImport(packagePath, files, st)
               ELSE Bundle(bundlePackageCode(packagePath, namedImports,
                                             defaultImport,
                                             Outcome(bundler, packagePath)))
         IN Strict(st1, LAMBDA s : ClassImports(Tail(ms), executeBody,
                                                toolContent, files, bundler,
                                                s))

\* String.prototype.replace(/this\.(\w+)/g, '$1')
RECURSIVE ReplaceThis(_, _)
ReplaceThis(t, from) ==
    LET Rest(m) ==
            IF m.e = 0 THEN SubSeq(t, from, Len(t))
            ELSE SubSeq(t, from, m.s - 1) \o Cap(m, 1) \o ReplaceThis(t, m.e)
    IN Rest(Exec(t, thisPropertyRegex, from))

createClassBasedExecute(executeBody, toolContent, className, files, bundler) ==
    LET Template(imp, dependencyCode, finalExecuteBody) ==
            [execute |->
                 ExecuteHead
                 \o (IF dependencyCode # <<>> THEN dependencyCode \o <<"\n">>
                     ELSE <<>>)
                 \o finalExecuteBody \o <<"\n", "}">>,
             calls |-> imp.calls]
        Dependencies(imp, constructorMatch, serviceInstantiationMatch) ==
            IF constructorMatch.e # 0 /\ serviceInstantiationMatch.e # 0
            THEN Append(imp.deps,
                        InstantiationFragment(Cap(serviceInstantiationMatch, 1),
                                              Cap(serviceInstantiationMatch, 2)))
            ELSE imp.deps
        Constructor(imp, constructorMatch) ==
            Dependencies(imp, constructorMatch,
                         Match(Cap(constructorMatch, 1),
                               serviceInstantiationRegex))
        Finish(imp, dependencyCode) ==
            Strict(StripClassTypes(executeBody),
                   LAMBDA cleanExecuteBody :
                       Template(imp, dependencyCode,
                                ReplaceThis(cleanExecuteBody, 1)))
        Resolve(imp) ==
            Strict(Join(imp.pk
                        \o Constructor(imp, Match(toolContent,
                                                  constructorRegex)),
                        <<"\n">>),
                   LAMBDA dependencyCode : Finish(imp, dependencyCode))
    IN Strict(ClassImports(ExecAll(toolContent, allImportRegex, 1),
                           executeBody, toolContent, files, bundler,
                           [pk |-> <<>>, deps |-> <<>>, calls |-> <<>>]),
              Resolve)

NoSchema == [type |-> "object", properties |-> <<>>, hasRequired |-> FALSE,
             required |-> <<>>]

NoTool == [name |-> <<>>, description |-> <<>>, inputSchema |-> NoSchema,
           outputSchema |-> NoSchema, execute |-> <<>>]

\* The result: null (TRUE with a warning), the tool, the bundler calls made.
extractToolFromClass(className, indexContent, files, bundler) ==
    LET importMatch == Exec(indexContent, classImportRegex(className), 1)
        f == ReadTs(files, ToolFilePath(Cap(importMatch, 1)))
        nameMatch == Match(f.text, thisNameRegex)
        descriptionMatch == Match(f.text, thisDescriptionRegex)
        inputSchemaMatch == Match(f.text, classInputSchemaRegex)
        outputSchemaMatch == Match(f.text, classOutputSchemaRegex)
        executeMatch == Match(f.text, executeMethodRegex)
        skipped == [null |-> TRUE, tool |-> NoTool, calls |-> <<>>]
        Emit(toolContent, x) ==
            [null |-> FALSE,
             tool |-> [name |-> Cap(nameMatch, 1),
                       description |-> Cap(descriptionMatch, 1),
                       inputSchema |->
                           convertSchemaToJSON(Cap(inputSchemaMatch, 1),
                                               toolContent),
                       outputSchema |->
                           IF outputSchemaMatch.e # 0
                           THEN convertSchemaToJSON(Cap(outputSchemaMatch, 1),
                                                    toolContent)
                           ELSE NoSchema,
                       execute |-> x.execute],
             calls |-> x.calls]
    IN IF importMatch.e = 0 THEN skipped
       ELSE IF ~f.exists THEN skipped
       ELSE IF nameMatch.e = 0 \/ descriptionMatch.e = 0 THEN skipped
       ELSE IF inputSchemaMatch.e = 0 THEN skipped
       ELSE IF executeMatch.e = 0 THEN skipped
       ELSE Strict(createClassBasedExecute(Cap(executeMatch, 1), f.text,
                                           className, files, bundler),
                   LAMBDA x : Emit(f.text, x))

\* ------------------------------------------------------------------------
\* Tool Extractor
\* ------------------------------------------------------------------------

\* One iteration of the inline scan: emitted is FALSE when the declaration
\* is skipped.
InlineTool(toolContent, indexContent, bundler) ==
    LET nameMatch == Match(toolContent, nameRegex)
        descriptionMatch == Match(toolContent, descriptionRegex)
        inputSchemaMatch == Match(toolContent, inputSchemaRegex)
        outputSchemaMatch == Match(toolContent, outputSchemaRegex)
        executeMatch == Match(toolContent, executeRegex)
        Emit(x) ==
            [emitted |-> TRUE,
             tool |-> [name |-> Cap(nameMatch, 1),
                       description |-> Cap(descriptionMatch, 1),
                       inputSchema |->
                           convertSchemaToJSON(Cap(inputSchemaMatch, 1),
                                               indexContent),
                       outputSchema |->
                           convertSchemaToJSON(Cap(outputSchemaMatch, 1),
                                               indexContent),
                       execute |-> x.execute],
             calls |-> x.calls]
    IN IF nameMatch.e # 0 /\ descriptionMatch.e # 0 /\ inputSchemaMatch.e # 0
          /\ outputSchemaMatch.e # 0 /\ executeMatch.e # 0
       THEN Strict(createSelfContainedExecute(Cap(executeMatch, 1),
                                              indexContent, bundler),
                   Emit)
       ELSE [emitted |-> FALSE, tool |-> NoTool, calls |-> <<>>]

\* The inline scan leaving out a declaration for which some package could
\* not be bundled
RECURSIVE InlineScanSkipNull(_, _, _, _)
InlineScanSkipNull(ms, indexContent, bundler, acc) ==
    IF ms = <<>> THEN acc
    ELSE LET Push(r) ==
                 [tools |-> IF r.emitted
                               /\ \A k \in 1..Len(r.calls) : ~r.calls[k].null
                            THEN Append(acc.tools, r.tool)
                            ELSE acc.tools,
                  calls |-> acc.calls \o r.calls,
                  warnings |-> acc.warnings]
         IN Strict(Push(InlineTool(Cap(Head(ms), 1), indexContent, bundler)),
                   LAMBDA a : InlineScanSkipNull(Tail(ms), indexContent, bundler, a))

\* The inline scan bundling a package once and sharing the result between
\* the declarations
RECURSIVE InlineScanCached(_, _, _, _)
InlineScanCached(ms, indexContent, bundler, acc) ==
    IF ms = <<>> THEN acc
    ELSE LET Push(r) ==
                 [tools |-> IF r.emitted THEN Append(acc.tools, r.tool)
                            ELSE acc.tools,
                  calls |-> IF acc.calls = <<>> THEN r.calls ELSE acc.calls,
                  warnings |-> acc.warnings]
         IN Strict(Push(InlineTool(Cap(Head(ms), 1), indexContent, bundler)),
                   LAMBDA a : InlineScanCached(Tail(ms), indexContent, bundler, a))

RECURSIVE InlineScan(_, _, _, _)
InlineScan(ms, indexContent, bundler, acc) ==
    IF ms = <<>> THEN acc
    ELSE LET Push(r) ==
                 [tools |-> IF r.emitted THEN Append(acc.tools, r.tool)
                            ELSE acc.tools,
                  calls |-> acc.calls \o r.calls,
                  warnings |-> acc.warnings]
         IN Strict(Push(InlineTool(Cap(Head(ms), 1), indexContent, bundler)),
                   LAMBDA a : InlineScan(Tail(ms), indexContent, bundler, a))

\* The class scan giving up at the first declaration it cannot resolve
RECURSIVE ClassScanStop(_, _, _, _, _)
ClassScanStop(ms, indexContent, files, bundler, acc) ==
    IF ms = <<>> THEN acc
    ELSE LET Push(r) ==
                 IF r.null
                 THEN [tools |-> acc.tools, calls |-> acc.calls,
                       warnings |-> acc.warnings + 1]
                 ELSE ClassScanStop(Tail(ms), indexContent, files, bundler,
                                    [tools |-> Append(acc.tools, r.tool),
                                     calls |-> acc.calls \o r.calls,
                                     warnings |-> acc.warnings])
         IN Strict(extractToolFromClass(Cap(Head(ms), 1), indexContent,
                                        files, bundler),
                   Push)

RECURSIVE ClassScan(_, _, _, _, _)
ClassScan(ms, indexContent, files, bundler, acc) ==
    IF ms = <<>> THEN acc
    ELSE LET Push(r) ==
                 [tools |-> IF r.null THEN acc.tools
                            ELSE Append(acc.tools, r.tool),
                  calls |-> acc.calls \o r.calls,
                  warnings |-> IF r.null THEN acc.warnings + 1
                               ELSE acc.warnings]
         IN Strict(Push(extractToolFromClass(Cap(Head(ms), 1), indexContent,
                                             files, bundler)),
                   LAMBDA a : ClassScan(Tail(ms), indexContent, files,
                                        bundler, a))

\* tools: the manifest's tools; calls: the bundlePackageCode results in
\* call order; warnings: the number of skipped class-based declarations.
extractSkillInfo(indexContent, files, bundler) ==
    Strict(InlineScan(ExecAll(indexContent, inlineAddToolRegex, 1),
                      indexContent, bundler,
                      [tools |-> <<>>, calls |-> <<>>, warnings |-> 0]),
           LAMBDA inline :
               ClassScan(ExecAll(indexContent, classAddToolRegex, 1),
                         indexContent, files, bundler, inline))


\* The packages of the bundlePackageCode calls of a scan, in call order
Requests(calls) == [c \in 1..Len(calls) |-> calls[c].pkg]

\* Calls that do not wait for one another
Detached(running) == TRUE

\* `await bundlePackageCode(...)` inside the loops: the next call is made
\* when the one before it has returned
Awaited(running) == running = {}

\* ------------------------------------------------------------------------
\* Manifest Writer and the deploy command
\* ------------------------------------------------------------------------

\* packageJson.version || "1.0.0" ,  packageJson.name || "lua-skill"
VersionOf(pj) == IF pj.version # <<>> THEN pj.version ELSE <<"1.0.0">>
SkillsNameOf(pj) == IF pj.name # <<>> THEN pj.name ELSE <<"lua-skill">>

NoManifest == [exists |-> FALSE, version |-> <<>>, skillsName |-> <<>>,
               tools |-> <<>>]

\* fs.writeFileSync(path.join(luaDir, `${tool.name}.js`), tool.execute)
WriteFile(dir, name, content) ==
    [n \in DOMAIN dir \cup {name} |-> IF n = name THEN content ELSE dir[n]]

\* The loop over skillInfo that writes the per-tool files
RECURSIVE WriteToolFiles(_, _)
WriteToolFiles(dir, tools) ==
    IF tools = <<>> THEN dir
    ELSE WriteToolFiles(WriteFile(dir, Head(tools).name, Head(tools).execute),
                        Tail(tools))

\* The temporary files in .lua after the bundlePackageCode calls: each call
\* writes its entry file; a successful one unlinks entry and output again.
RECURSIVE TmpAfter(_, _)
TmpAfter(tmp, cs) ==
    IF cs = <<>> THEN tmp
    ELSE TmpAfter(IF Head(cs).left = {}
                  THEN tmp \ {EntryFile(Head(cs).pkg), OutputFile(Head(cs).pkg)}
                  ELSE tmp \cup Head(cs).left,
                  Tail(cs))

\* fs.readFileSync(indexPath, "utf8")
IndexContent(ix) == Flatten(ix.items)

\* deployCommand creating the output directory before it looks for the
\* project's files
deployCommandMkdirFirst(pj, ix, fl, bd, disk) ==
    LET failed == [disk |-> [disk EXCEPT !.luaDir = TRUE], exit |-> 1,
                   calls |-> <<>>, warnings |-> 0]
        Write(skillInfo, tools) ==
            [disk |-> [luaDir |-> TRUE,
                       deployJson |-> [exists |-> TRUE,
                                       version |-> VersionOf(pj),
                                       skillsName |-> SkillsNameOf(pj),
                                       tools |-> tools],
                       toolFiles |-> WriteToolFiles(disk.toolFiles, tools),
                       tmpFiles |-> TmpAfter(disk.tmpFiles, skillInfo.calls)],
             exit |-> 0,
             calls |-> skillInfo.calls,
             warnings |-> skillInfo.warnings]
        Compile(skillInfo) == Write(skillInfo, skillInfo.tools)
    IN IF ~pj.exists THEN failed
       ELSE IF ~ix.exists THEN failed
       ELSE Strict(IndexContent(ix),
                   LAMBDA indexContent :
                       Strict(extractSkillInfo(indexContent, fl, bd), Compile))

\* deployCommand leaving out the tools whose file is on disk already
deployCommandIncremental(pj, ix, fl, bd, disk) ==
    LET failed == [disk |-> disk, exit |-> 1,
                   calls |-> <<>>, warnings |-> 0]
        Write(skillInfo, tools) ==
            [disk |-> [luaDir |-> TRUE,
                       deployJson |-> [exists |-> TRUE,
                                       version |-> VersionOf(pj),
                                       skillsName |-> SkillsNameOf(pj),
                                       tools |-> tools],
                       toolFiles |-> WriteToolFiles(disk.toolFiles, tools),
                       tmpFiles |-> TmpAfter(disk.tmpFiles, skillInfo.calls)],
             exit |-> 0,
             calls |-> skillInfo.calls,
             warnings |-> skillInfo.warnings]
        Compile(skillInfo) == Write(skillInfo, SelectSeq(skillInfo.tools,
                      LAMBDA t : t.name \notin DOMAIN disk.toolFiles))
    IN IF ~pj.exists THEN failed
       ELSE IF ~ix.exists THEN failed
       ELSE Strict(IndexContent(ix),
                   LAMBDA indexContent :
                       Strict(extractSkillInfo(indexContent, fl, bd), Compile))

\* deployCommand adding its tools to those of the manifest on disk
deployCommandMerge(pj, ix, fl, bd, disk) ==
    LET failed == [disk |-> disk, exit |-> 1,
                   calls |-> <<>>, warnings |-> 0]
        Write(skillInfo, tools) ==
            [disk |-> [luaDir |-> TRUE,
                       deployJson |-> [exists |-> TRUE,
                                       version |-> VersionOf(pj),
                                       skillsName |-> SkillsNameOf(pj),
                                       tools |-> disk.deployJson.tools \o tools],
                       toolFiles |-> WriteToolFiles(disk.toolFiles, tools),
                       tmpFiles |-> TmpAfter(disk.tmpFiles, skillInfo.calls)],
             exit |-> 0,
             calls |-> skillInfo.calls,
             warnings |-> skillInfo.warnings]
        Compile(skillInfo) == Write(skillInfo, skillInfo.tools)
    IN IF ~pj.exists THEN failed
       ELSE IF ~ix.exists THEN failed
       ELSE Strict(IndexContent(ix),
                   LAMBDA indexContent :
                       Strict(extractSkillInfo(indexContent, fl, bd), Compile))

\* The disk is the part of the file system the command writes:
\* [luaDir, deployJson, toolFiles, tmpFiles].  The result is the disk after
\* the command, its exit code and what the extraction reported.
deployCommand(pj, ix, fl, bd, disk) ==
    LET failed == [disk |-> disk, exit |-> 1,
                   calls |-> <<>>, warnings |-> 0]
        Write(skillInfo, tools) ==
            [disk |-> [luaDir |-> TRUE,
                       deployJson |-> [exists |-> TRUE,
                                       version |-> VersionOf(pj),
                                       skillsName |-> SkillsNameOf(pj),
                                       tools |-> tools],
                       toolFiles |-> WriteToolFiles(disk.toolFiles, tools),
                       tmpFiles |-> TmpAfter(disk.tmpFiles, skillInfo.calls)],
             exit |-> 0,
             calls |-> skillInfo.calls,
             warnings |-> skillInfo.warnings]
        Compile(skillInfo) == Write(skillInfo, skillInfo.tools)
    IN IF ~pj.exists THEN failed
       ELSE IF ~ix.exists THEN failed
       ELSE Strict(IndexContent(ix),
                   LAMBDA indexContent :
                       Strict(extractSkillInfo(indexContent, fl, bd), Compile))

\* ------------------------------------------------------------------------
\* LuaSkill
\* ------------------------------------------------------------------------

\* A value of an input object is a pair <<typeof value, text>>; a missing
\* key reads as undefined.
Undefined == <<"undefined">>
Get(input, key) == IF key \in DOMAIN input THEN input[key] ELSE Undefined
Text(v) == v[Len(v)]

\* The fields the tools' schemas declare, z.object({ city: z.string() }) and
\* z.object({ days: z.number() }) among them
FieldType(key) == IF key = "city" THEN "string" ELSE "number"

\* tool.inputSchema.parse(input) for an object schema with the fields
\* inputSchema: it throws when a field is missing or of the wrong type, and
\* returns the declared fields alone.
parse(inputSchema, input) ==
    IF \A key \in inputSchema : Get(input, key)[1] = FieldType(key)
    THEN [threw |-> FALSE, value |-> [key \in inputSchema |-> input[key]]]
    ELSE [threw |-> TRUE, value |-> <<>>]

NoRun == [input |-> <<>>, error |-> <<>>]

\* this.tools.find(tool => tool.name === input.tool), 0 for undefined
Find(tools, input) ==
    First({k \in 1..Len(tools) :
              <<"string", tools[k].name>> = Get(input, "tool")})

\* run handing the tool the input as it came
runRaw(tools, input) ==
    LET Validate(tool, v) ==
            IF v.threw
            THEN [error |-> <<"ZodError">>, executed |-> FALSE, tool |-> tool,
                  passed |-> <<>>]
            ELSE [error |-> <<>>, executed |-> TRUE, tool |-> tool,
                  passed |-> input]
        Call(tool) ==
            IF tool = 0
            THEN [error |-> <<"Tool", " ", Text(Get(input, "tool")), " ",
                              "not found">>,
                  executed |-> FALSE, tool |-> 0, passed |-> <<>>]
            ELSE Validate(tool, parse(tools[tool].inputSchema, input))
    IN Call(Find(tools, input))

\* LuaSkill.run: the error it rejects with (<<>> when it resolves), whether
\* a tool's execute was called, which tool's and with what argument.
run(tools, input) ==
    LET Validate(tool, validatedInput) ==
            IF validatedInput.threw
            THEN [error |-> <<"ZodError">>, executed |-> FALSE, tool |-> tool,
                  passed |-> <<>>]
            ELSE [error |-> <<>>, executed |-> TRUE, tool |-> tool,
                  passed |-> validatedInput.value]
        Call(tool) ==
            IF tool = 0
            THEN [error |-> <<"Tool", " ", Text(Get(input, "tool")), " ",
                              "not found">>,
                  executed |-> FALSE, tool |-> 0, passed |-> <<>>]
            ELSE Validate(tool, parse(tools[tool].inputSchema, input))
    IN Call(Find(tools, input))

\* ------------------------------------------------------------------------
\* Authentication commands
\* ------------------------------------------------------------------------

\* The keychain entry of service "lua-cli", account "api-key": a key, or
\* NoKey when there is none (getPassword returns null)
NoKey == "null"

\* A call of a function of services/auth, or of inquirer.prompt, with its
\* argument and how it settled
Called(fn, arg, result) == [fn |-> fn, arg |-> arg, result |-> result]

\* The command's outcome: the keychain after it, the process's exit code
\* and the service calls it made, in order.
\* process.exit(1) ends the command where it stands; a rejection nobody
\* handles ends the process with exit code 1 as well.
Exit1(stored, calls) == [keychain |-> stored, exit |-> 1, calls |-> calls]

\* await saveApiKey(apiKey) as the command's last step
Save(stored, calls, apiKey, service) ==
    IF service.save = "ok"
    THEN [keychain |-> apiKey, exit |-> 0,
          calls |-> Append(calls, Called("saveApiKey", apiKey, "ok"))]
    ELSE Exit1(stored, Append(calls, Called("saveApiKey", apiKey, "throws")))

\* configureCommand storing the key the user typed before it checks it
configureCommandSaveFirst(stored, answers, service) ==
    IF answers.authMethod = "api-key"
    THEN IF service.check = "data"
         THEN Save(stored,
                   <<Called("checkApiKey", answers.apiKey, service.check)>>,
                   answers.apiKey, service)
         ELSE [keychain |-> answers.apiKey, exit |-> 1,
               calls |-> <<Called("saveApiKey", answers.apiKey, "ok"),
                           Called("checkApiKey", answers.apiKey,
                                  service.check)>>]
    ELSE Exit1(stored, <<Called("requestEmailOTP", answers.email, FALSE)>>)

\* answers: what the user gives the prompts; service: how each call of
\* services/auth settles (check: "data", "null" for an empty body, "notok",
\* "throws"; otp: response.ok; token and generated: a string or "null").
configureCommand(stored, answers, service) ==
    LET otp == <<Called("requestEmailOTP", answers.email, service.otp)>>
        verify == Append(otp, Called("verifyOTPAndGetToken",
                                     <<answers.email, answers.pin>>,
                                     service.token))
        generate == Append(verify, Called("generateApiKey", service.token,
                                          service.generated))
    IN IF answers.authMethod = "api-key"
       THEN IF service.check = "data"
            THEN Save(stored,
                      <<Called("checkApiKey", answers.apiKey, service.check)>>,
                      answers.apiKey, service)
            ELSE Exit1(stored, <<Called("checkApiKey", answers.apiKey,
                                        service.check)>>)
       ELSE IF answers.authMethod = "email"
       THEN IF ~service.otp THEN Exit1(stored, otp)
            ELSE IF service.token = "null" THEN Exit1(stored, verify)
            ELSE IF service.generated = "null" THEN Exit1(stored, generate)
            ELSE Save(stored, generate, service.generated, service)
       ELSE [keychain |-> stored, exit |-> 0, calls |-> <<>>]

\* destroyCommand deleting the key without asking
destroyCommandNoPrompt(stored, answers, service) ==
    [keychain |-> IF service.deleted THEN NoKey ELSE stored,
     exit |-> 0,
     calls |-> <<Called("loadApiKey", <<>>, stored),
                 Called("deleteApiKey", <<>>, service.deleted)>>]

\* answers.confirm: the user's answer to the confirmation prompt;
\* service.deleted: what keytar.deletePassword returns.
destroyCommand(stored, answers, service) ==
    LET load == <<Called("loadApiKey", <<>>, stored)>>
        prompt == Append(load, Called("prompt", "confirm", answers.confirm))
    IN IF stored = NoKey
       THEN [keychain |-> stored, exit |-> 0, calls |-> load]
       ELSE IF answers.confirm
       THEN [keychain |-> IF service.deleted THEN NoKey ELSE stored,
             exit |-> 0,
             calls |-> Append(prompt, Called("deleteApiKey", <<>>,
                                             service.deleted))]
       ELSE [keychain |-> stored, exit |-> 0, calls |-> prompt]

\* ------------------------------------------------------------------------
\* The project files the model draws from
\* ------------------------------------------------------------------------

\*   class Alpha {
\*    run(x: number) {
\*     return x;
\*    }
\*   }
ClassAlpha ==
    <<"class", " ", "Alpha", " ", "{", "\n", " ", "run", "(", "x", ":", " ",
      "number", ")", " ", "{", "\n", " ", " ", "return", " ", "x", ";", "\n",
      " ", "}", "\n", "}", "\n">>

\*   class Beta {
\*    make(a: any) {
\*     return new Alpha();
\*    }
\*   }
ClassBeta ==
    <<"class", " ", "Beta", " ", "{", "\n", " ", "make", "(", "a", ":", " ",
      "any", ")", " ", "{", "\n", " ", " ", "return", " ", "new", " ",
      "Alpha", "(", ")", ";", "\n", " ", "}", "\n", "}", "\n">>

\*   const alpha = new Alpha();
ConstAlpha ==
    <<"const", " ", "alpha", " ", "=", " ", "new", " ", "Alpha", "(", ")",
      ";", "\n">>

\*   function twice(n: number) {
\*    return n + n;
\*   }
FunctionTwice ==
    <<"function", " ", "twice", "(", "n", ":", " ", "number", ")", " ", "{",
      "\n", " ", "return", " ", "n", " ", "+", " ", "n", ";", "\n", "}",
      "\n">>

\*   skill.addTool({
\*    name: "echo",
\*    description: "Demo",
\*    inputSchema: inSchema,
\*    outputSchema: outSchema,
\*    execute: async (input) => {
\*     return input.x;
\*    }
\*   });
ToolEcho ==
    <<"skill", ".", "addTool", "(", "{", "\n", " ", "name", ":", " ", "\"",
      "echo", "\"", ",", "\n", " ", "description", ":", " ", "\"", "Demo",
      "\"", ",", "\n", " ", "inputSchema", ":", " ", "inSchema", ",", "\n",
      " ", "outputSchema", ":", " ", "outSchema", ",", "\n", " ", "execute",
      ":", " ", "async", " ", "(", "input", ")", " ", "=>", " ", "{", "\n",
      " ", " ", "return", " ", "input", ".", "x", ";", "\n", " ", "}", "\n",
      "}", ")", ";", "\n">>

\*   skill.addTool({
\*    name: "wrap",
\*    description: "Demo",
\*    inputSchema: inSchema,
\*    outputSchema: outSchema,
\*    execute: async (input) => {
\*     return { r: input.x };
\*    }
\*   });
ToolWrap ==
    <<"skill", ".", "addTool", "(", "{", "\n", " ", "name", ":", " ", "\"",
      "wrap", "\"", ",", "\n", " ", "description", ":", " ", "\"", "Demo",
      "\"", ",", "\n", " ", "inputSchema", ":", " ", "inSchema", ",", "\n",
      " ", "outputSchema", ":", " ", "outSchema", ",", "\n", " ", "execute",
      ":", " ", "async", " ", "(", "input", ")", " ", "=>", " ", "{", "\n",
      " ", " ", "return", " ", "{", " ", "r", ":", " ", "input", ".", "x",
      " ", "}", ";", "\n", " ", "}", "\n", "}", ")", ";", "\n">>

\*   skill.addTool({
\*    name: "both",
\*    description: "Demo",
\*    inputSchema: inSchema,
\*    outputSchema: outSchema,
\*    execute: async (input) => {
\*     return new Beta().make(new Alpha());
\*    }
\*   });
ToolBoth ==
    <<"skill", ".", "addTool", "(", "{", "\n", " ", "name", ":", " ", "\"",
      "both", "\"", ",", "\n", " ", "description", ":", " ", "\"", "Demo",
      "\"", ",", "\n", " ", "inputSchema", ":", " ", "inSchema", ",", "\n",
      " ", "outputSchema", ":", " ", "outSchema", ",", "\n", " ", "execute",
      ":", " ", "async", " ", "(", "input", ")", " ", "=>", " ", "{", "\n",
      " ", " ", "return", " ", "new", " ", "Beta", "(", ")", ".", "make",
      "(", "new", " ", "Alpha", "(", ")", ")", ";", "\n", " ", "}", "\n",
      "}", ")", ";", "\n">>

\*   skill.addTool({
\*    name: "local",
\*    description: "Demo",
\*    inputSchema: inSchema,
\*    outputSchema: outSchema,
\*    execute: async (input) => {
\*     const alpha = new Alpha();
\*     return alpha.run(2);
\*    }
\*   });
ToolLocal ==
    <<"skill", ".", "addTool", "(", "{", "\n", " ", "name", ":", " ", "\"",
      "local", "\"", ",", "\n", " ", "description", ":", " ", "\"", "Demo",
      "\"", ",", "\n", " ", "inputSchema", ":", " ", "inSchema", ",", "\n",
      " ", "outputSchema", ":", " ", "outSchema", ",", "\n", " ", "execute",
      ":", " ", "async", " ", "(", "input", ")", " ", "=>", " ", "{", "\n",
      " ", " ", "const", " ", "alpha", " ", "=", " ", "new", " ", "Alpha",
      "(", ")", ";", "\n", " ", " ", "return", " ", "alpha", ".", "run", "(",
      "2", ")", ";", "\n", " ", "}", "\n", "}", ")", ";", "\n">>

\*   skill.addTool({
\*    name: "double",
\*    description: "Demo",
\*    inputSchema: inSchema,
\*    outputSchema: outSchema,
\*    execute: async (input) => {
\*     return twice(input.x);
\*    }
\*   });
ToolDouble ==
    <<"skill", ".", "addTool", "(", "{", "\n", " ", "name", ":", " ", "\"",
      "double", "\"", ",", "\n", " ", "description", ":", " ", "\"", "Demo",
      "\"", ",", "\n", " ", "inputSchema", ":", " ", "inSchema", ",", "\n",
      " ", "outputSchema", ":", " ", "outSchema", ",", "\n", " ", "execute",
      ":", " ", "async", " ", "(", "input", ")", " ", "=>", " ", "{", "\n",
      " ", " ", "return", " ", "twice", "(", "input", ".", "x", ")", ";",
      "\n", " ", "}", "\n", "}", ")", ";", "\n">>

\*   skill.addTool({
\*    name: "shared",
\*    description: "Demo",
\*    inputSchema: inSchema,
\*    outputSchema: outSchema,
\*    execute: async (input) => {
\*     return alpha.run(input.x);
\*    }
\*   });
ToolShared ==
    <<"skill", ".", "addTool", "(", "{", "\n", " ", "name", ":", " ", "\"",
      "shared", "\"", ",", "\n", " ", "description", ":", " ", "\"", "Demo",
      "\"", ",", "\n", " ", "inputSchema", ":", " ", "inSchema", ",", "\n",
      " ", "outputSchema", ":", " ", "outSchema", ",", "\n", " ", "execute",
      ":", " ", "async", " ", "(", "input", ")", " ", "=>", " ", "{", "\n",
      " ", " ", "return", " ", "alpha", ".", "run", "(", "input", ".", "x",
      ")", ";", "\n", " ", "}", "\n", "}", ")", ";", "\n">>

\*   skill.addTool({
\*    name: "report",
\*    inputSchema: inSchema,
\*    outputSchema: outSchema,
\*    execute: async (input) => {
\*     return { description: "Sunny" };
\*    }
\*   });
ToolNoDescription ==
    <<"skill", ".", "addTool", "(", "{", "\n", " ", "name", ":", " ", "\"",
      "report", "\"", ",", "\n", " ", "inputSchema", ":", " ", "inSchema",
      ",", "\n", " ", "outputSchema", ":", " ", "outSchema", ",", "\n", " ",
      "execute", ":", " ", "async", " ", "(", "input", ")", " ", "=>", " ",
      "{", "\n", " ", " ", "return", " ", "{", " ", "description", ":", " ",
      "\"", "Sunny", "\"", " ", "}", ";", "\n", " ", "}", "\n", "}", ")",
      ";", "\n">>

\*   skill.addTool({
\*    name: "echo",
\*    description: "Again",
\*    inputSchema: inSchema,
\*    outputSchema: outSchema,
\*    execute: async (input) => {
\*     return input.y;
\*    }
\*   });
ToolEchoAgain ==
    <<"skill", ".", "addTool", "(", "{", "\n", " ", "name", ":", " ", "\"",
      "echo", "\"", ",", "\n", " ", "description", ":", " ", "\"", "Again",
      "\"", ",", "\n", " ", "inputSchema", ":", " ", "inSchema", ",", "\n",
      " ", "outputSchema", ":", " ", "outSchema", ",", "\n", " ", "execute",
      ":", " ", "async", " ", "(", "input", ")", " ", "=>", " ", "{", "\n",
      " ", " ", "return", " ", "input", ".", "y", ";", "\n", " ", "}", "\n",
      "}", ")", ";", "\n">>

\*   import axios from "axios";
ImportAxios ==
    <<"import", " ", "axios", " ", "from", " ", "\"", "axios", "\"", ";",
      "\n">>

\*   skill.addTool({
\*    name: "fetch",
\*    description: "Demo",
\*    inputSchema: inSchema,
\*    outputSchema: outSchema,
\*    execute: async (input) => {
\*     return axios.get(input.x);
\*    }
\*   });
ToolFetch ==
    <<"skill", ".", "addTool", "(", "{", "\n", " ", "name", ":", " ", "\"",
      "fetch", "\"", ",", "\n", " ", "description", ":", " ", "\"", "Demo",
      "\"", ",", "\n", " ", "inputSchema", ":", " ", "inSchema", ",", "\n",
      " ", "outputSchema", ":", " ", "outSchema", ",", "\n", " ", "execute",
      ":", " ", "async", " ", "(", "input", ")", " ", "=>", " ", "{", "\n",
      " ", " ", "return", " ", "axios", ".", "get", "(", "input", ".", "x",
      ")", ";", "\n", " ", "}", "\n", "}", ")", ";", "\n">>

\*   import { chunk } from "lodash";
ImportLodash ==
    <<"import", " ", "{", " ", "chunk", " ", "}", " ", "from", " ", "\"",
      "lodash", "\"", ";", "\n">>

\*   skill.addTool({
\*    name: "chunk",
\*    description: "Demo",
\*    inputSchema: inSchema,
\*    outputSchema: outSchema,
\*    execute: async (input) => {
\*     return chunk(input.x, 2);
\*    }
\*   });
ToolChunk ==
    <<"skill", ".", "addTool", "(", "{", "\n", " ", "name", ":", " ", "\"",
      "chunk", "\"", ",", "\n", " ", "description", ":", " ", "\"", "Demo",
      "\"", ",", "\n", " ", "inputSchema", ":", " ", "inSchema", ",", "\n",
      " ", "outputSchema", ":", " ", "outSchema", ",", "\n", " ", "execute",
      ":", " ", "async", " ", "(", "input", ")", " ", "=>", " ", "{", "\n",
      " ", " ", "return", " ", "chunk", "(", "input", ".", "x", ",", " ",
      "2", ")", ";", "\n", " ", "}", "\n", "}", ")", ";", "\n">>

\*   skill.addTool({
\*    name: "get_weather",
\*    description: "Demo",
\*    inputSchema,
\*    outputSchema,
\*    execute: async (input) => {
\*     return input.city;
\*    }
\*   });
ToolShorthand ==
    <<"skill", ".", "addTool", "(", "{", "\n", " ", "name", ":", " ", "\"",
      "get_weather", "\"", ",", "\n", " ", "description", ":", " ", "\"",
      "Demo", "\"", ",", "\n", " ", "inputSchema", ",", "\n", " ",
      "outputSchema", ",", "\n", " ", "execute", ":", " ", "async", " ", "(",
      "input", ")", " ", "=>", " ", "{", "\n", " ", " ", "return", " ",
      "input", ".", "city", ";", "\n", " ", "}", "\n", "}", ")", ";", "\n">>

\*   import GetWeatherTool from "./tools/GetWeatherTool";
\*   skill.addTool(new GetWeatherTool());
ClassToolCall ==
    <<"import", " ", "GetWeatherTool", " ", "from", " ", "\"", ".", "/",
      "tools", "/", "GetWeatherTool", "\"", ";", "\n", "skill", ".",
      "addTool", "(", "new", " ", "GetWeatherTool", "(", ")", ")", ";", "\n">>

\*   import { LuaTool } from "lua-cli/skill";
\*   import { z } from "zod";
\*   import GetWeatherService from "../services/GetWeather";
\*   const inputSchema = z.object({
\*    city: z.string()
\*   });
\*   const outputSchema = z.object({
\*    weather: z.string()
\*   });
\*   export default class GetWeatherTool implements LuaTool {
\*    weatherService: GetWeatherService;
\*    constructor() {
\*     this.name = "get_weather";
\*     this.description = "Get the weather";
\*     this.weatherService = new GetWeatherService();
\*    }
\*    async execute(input: any) {
\*     return this.weatherService.getWeather(input.city);
\*    }
\*   }
GetWeatherToolTs ==
    <<"import", " ", "{", " ", "LuaTool", " ", "}", " ", "from", " ", "\"",
      "lua", "-", "cli", "/", "skill", "\"", ";", "\n", "import", " ", "{",
      " ", "z", " ", "}", " ", "from", " ", "\"", "zod", "\"", ";", "\n",
      "import", " ", "GetWeatherService", " ", "from", " ", "\"", ".", ".",
      "/", "services", "/", "GetWeather", "\"", ";", "\n", "const", " ",
      "inputSchema", " ", "=", " ", "z", ".", "object", "(", "{", "\n", " ",
      "city", ":", " ", "z", ".", "string", "(", ")", "\n", "}", ")", ";",
      "\n", "const", " ", "outputSchema", " ", "=", " ", "z", ".", "object",
      "(", "{", "\n", " ", "weather", ":", " ", "z", ".", "string", "(", ")",
      "\n", "}", ")", ";", "\n", "export", " ", "default", " ", "class", " ",
      "GetWeatherTool", " ", "implements", " ", "LuaTool", " ", "{", "\n",
      " ", "weatherService", ":", " ", "GetWeatherService", ";", "\n", " ",
      "constructor", "(", ")", " ", "{", "\n", " ", " ", "this", ".", "name",
      " ", "=", " ", "\"", "get_weather", "\"", ";", "\n", " ", " ", "this",
      ".", "description", " ", "=", " ", "\"", "Get", " ", "the", " ",
      "weather", "\"", ";", "\n", " ", " ", "this", ".", "weatherService",
      " ", "=", " ", "new", " ", "GetWeatherService", "(", ")", ";", "\n",
      " ", "}", "\n", " ", "async", " ", "execute", "(", "input", ":", " ",
      "any", ")", " ", "{", "\n", " ", " ", "return", " ", "this", ".",
      "weatherService", ".", "getWeather", "(", "input", ".", "city", ")",
      ";", "\n", " ", "}", "\n", "}", "\n">>

\*   export default class GetWeatherService {
\*    async getWeather(city: string) {
\*     return { weather: "sunny", city: city };
\*    }
\*   }
GetWeatherTs ==
    <<"export", " ", "default", " ", "class", " ", "GetWeatherService", " ",
      "{", "\n", " ", "async", " ", "getWeather", "(", "city", ":", " ",
      "string", ")", " ", "{", "\n", " ", " ", "return", " ", "{", " ",
      "weather", ":", " ", "\"", "sunny", "\"", ",", " ", "city", ":", " ",
      "city", " ", "}", ";", "\n", " ", "}", "\n", "}", "\n">>

\*   import lodash from "lodash";
ImportLodashDefault ==
    <<"import", " ", "lodash", " ", "from", " ", "\"", "lodash", "\"", ";",
      "\n">>

\*   function load() {
\*    const name: string = "fs";
\*    return require(name);
\*   }
FunctionLoad ==
    <<"function", " ", "load", "(", ")", " ", "{", "\n", " ", "const", " ",
      "name", ":", " ", "string", " ", "=", " ", "\"", "fs", "\"", ";", "\n",
      " ", "return", " ", "require", "(", "name", ")", ";", "\n", "}", "\n">>

\*   skill.addTool({
\*    name: "load",
\*    description: "Demo",
\*    inputSchema: inSchema,
\*    outputSchema: outSchema,
\*    execute: async (input) => {
\*     return load();
\*    }
\*   });
ToolLoad ==
    <<"skill", ".", "addTool", "(", "{", "\n", " ", "name", ":", " ", "\"",
      "load", "\"", ",", "\n", " ", "description", ":", " ", "\"", "Demo",
      "\"", ",", "\n", " ", "inputSchema", ":", " ", "inSchema", ",", "\n",
      " ", "outputSchema", ":", " ", "outSchema", ",", "\n", " ", "execute",
      ":", " ", "async", " ", "(", "input", ")", " ", "=>", " ", "{", "\n",
      " ", " ", "return", " ", "load", "(", ")", ";", "\n", " ", "}", "\n",
      "}", ")", ";", "\n">>

\*   import FetchTool from "./tools/FetchTool";
\*   skill.addTool(new FetchTool());
ClassFetchCall ==
    <<"import", " ", "FetchTool", " ", "from", " ", "\"", ".", "/", "tools",
      "/", "FetchTool", "\"", ";", "\n", "skill", ".", "addTool", "(", "new",
      " ", "FetchTool", "(", ")", ")", ";", "\n">>

\*   import { LuaTool } from "lua-cli/skill";
\*   import { z } from "zod";
\*   import axios from "axios";
\*   import { chunk } from "lodash";
\*   const inputSchema = z.object({
\*    url: z.string()
\*   });
\*   export default class FetchTool implements LuaTool {
\*    constructor() {
\*     this.name = "fetch_url";
\*     this.description = "Fetch";
\*    }
\*    async execute(input: any) {
\*     const r = await axios.get(input.url);
\*     return chunk(r.data, 2);
\*    }
\*   }
FetchToolTs ==
    <<"import", " ", "{", " ", "LuaTool", " ", "}", " ", "from", " ", "\"",
      "lua", "-", "cli", "/", "skill", "\"", ";", "\n", "import", " ", "{",
      " ", "z", " ", "}", " ", "from", " ", "\"", "zod", "\"", ";", "\n",
      "import", " ", "axios", " ", "from", " ", "\"", "axios", "\"", ";",
      "\n", "import", " ", "{", " ", "chunk", " ", "}", " ", "from", " ",
      "\"", "lodash", "\"", ";", "\n", "const", " ", "inputSchema", " ", "=",
      " ", "z", ".", "object", "(", "{", "\n", " ", "url", ":", " ", "z",
      ".", "string", "(", ")", "\n", "}", ")", ";", "\n", "export", " ",
      "default", " ", "class", " ", "FetchTool", " ", "implements", " ",
      "LuaTool", " ", "{", "\n", " ", "constructor", "(", ")", " ", "{",
      "\n", " ", " ", "this", ".", "name", " ", "=", " ", "\"", "fetch_url",
      "\"", ";", "\n", " ", " ", "this", ".", "description", " ", "=", " ",
      "\"", "Fetch", "\"", ";", "\n", " ", "}", "\n", " ", "async", " ",
      "execute", "(", "input", ":", " ", "any", ")", " ", "{", "\n", " ",
      " ", "const", " ", "r", " ", "=", " ", "await", " ", "axios", ".",
      "get", "(", "input", ".", "url", ")", ";", "\n", " ", " ", "return",
      " ", "chunk", "(", "r", ".", "data", ",", " ", "2", ")", ";", "\n",
      " ", "}", "\n", "}", "\n">>


\*   skill.addTool(new MissingTool());
ClassMissingCall ==
    <<"skill", ".", "addTool", "(", "new", " ", "MissingTool", "(", ")", ")",
      ";", "\n">>

\*   class Gamma {
\*    run() {
\*     return 1;
\*    }
ClassGammaOpen ==
    <<"class", " ", "Gamma", " ", "{", "\n", " ", "run", "(", ")", " ", "{",
      "\n", " ", " ", "return", " ", "1", ";", "\n", " ", "}", "\n">>

\*   skill.addTool({
\*    name: "gamma",
\*    description: "Demo",
\*    inputSchema: inSchema,
\*    outputSchema: outSchema,
\*    execute: async (input) => {
\*     return new Gamma().run();
\*    }
\*   });
ToolGamma ==
    <<"skill", ".", "addTool", "(", "{", "\n", " ", "name", ":", " ", "\"",
      "gamma", "\"", ",", "\n", " ", "description", ":", " ", "\"", "Demo",
      "\"", ",", "\n", " ", "inputSchema", ":", " ", "inSchema", ",", "\n",
      " ", "outputSchema", ":", " ", "outSchema", ",", "\n", " ", "execute",
      ":", " ", "async", " ", "(", "input", ")", " ", "=>", " ", "{", "\n",
      " ", " ", "return", " ", "new", " ", "Gamma", "(", ")", ".", "run",
      "(", ")", ";", "\n", " ", "}", "\n", "}", ")", ";", "\n">>

\*   import TwoServicesTool from "./tools/TwoServicesTool";
\*   skill.addTool(new TwoServicesTool());
ClassTwoCall ==
    <<"import", " ", "TwoServicesTool", " ", "from", " ", "\"", ".", "/",
      "tools", "/", "TwoServicesTool", "\"", ";", "\n", "skill", ".",
      "addTool", "(", "new", " ", "TwoServicesTool", "(", ")", ")", ";",
      "\n">>

\*   import { LuaTool } from "lua-cli/skill";
\*   import { z } from "zod";
\*   import GetWeatherService from "../services/GetWeather";
\*   const inputSchema = z.object({
\*    city: z.string()
\*   });
\*   export default class TwoServicesTool implements LuaTool {
\*    constructor() {
\*     this.name = "two_services";
\*     this.description = "Forecast";
\*     this.weatherService = new GetWeatherService();
\*     this.backupService = new GetWeatherService();
\*    }
\*    async execute(input: any) {
\*     return this.backupService.getWeather(input.city);
\*    }
\*   }
TwoServicesToolTs ==
    <<"import", " ", "{", " ", "LuaTool", " ", "}", " ", "from", " ", "\"",
      "lua", "-", "cli", "/", "skill", "\"", ";", "\n", "import", " ", "{",
      " ", "z", " ", "}", " ", "from", " ", "\"", "zod", "\"", ";", "\n",
      "import", " ", "GetWeatherService", " ", "from", " ", "\"", ".", ".",
      "/", "services", "/", "GetWeather", "\"", ";", "\n", "const", " ",
      "inputSchema", " ", "=", " ", "z", ".", "object", "(", "{", "\n", " ",
      "city", ":", " ", "z", ".", "string", "(", ")", "\n", "}", ")", ";",
      "\n", "export", " ", "default", " ", "class", " ", "TwoServicesTool",
      " ", "implements", " ", "LuaTool", " ", "{", "\n", " ", "constructor",
      "(", ")", " ", "{", "\n", " ", " ", "this", ".", "name", " ", "=", " ",
      "\"", "two_services", "\"", ";", "\n", " ", " ", "this", ".",
      "description", " ", "=", " ", "\"", "Forecast", "\"", ";", "\n", " ",
      " ", "this", ".", "weatherService", " ", "=", " ", "new", " ",
      "GetWeatherService", "(", ")", ";", "\n", " ", " ", "this", ".",
      "backupService", " ", "=", " ", "new", " ", "GetWeatherService", "(",
      ")", ";", "\n", " ", "}", "\n", " ", "async", " ", "execute", "(",
      "input", ":", " ", "any", ")", " ", "{", "\n", " ", " ", "return", " ",
      "this", ".", "backupService", ".", "getWeather", "(", "input", ".",
      "city", ")", ";", "\n", " ", "}", "\n", "}", "\n">>

\*   const alpha = new Alpha(7);
ConstAlphaArgs ==
    <<"const", " ", "alpha", " ", "=", " ", "new", " ", "Alpha", "(", "7",
      ")", ";", "\n">>

\*   async function twice(n: number) {
\*    return n + n;
\*   }
FunctionAsyncTwice == <<"async", " ">> \o FunctionTwice

\* const <schemaVar> = z.object({
\*  <name>: z.<type>(),
\*  ...
\* });
FieldText(f) ==
    <<" ">> \o f.name \o <<":", " ", "z", ".", f.type, "(", ")">>

SchemaDecl(schemaVar, fields) ==
    <<"const", " ">> \o schemaVar
        \o <<" ", "=", " ", "z", ".", "object", "(", "{", "\n">>
        \o Join([i \in 1..Len(fields) |-> FieldText(fields[i])], <<",", "\n">>)
        \o <<"\n", "}", ")", ";", "\n">>

\*  note: z.string().optional()   count: z.number().min(1)
\*  unit: z.enum(["c", "f"])       tags: z.array(z.string())
\*  place: z.object({ street: z.string() })
OtherFields ==
    {<<" ", "note", ":", " ", "z", ".", "string", "(", ")", ".", "optional", "(", ")">>,
     <<" ", "count", ":", " ", "z", ".", "number", "(", ")", ".", "min", "(", "1", ")">>,
     <<" ", "unit", ":", " ", "z", ".", "enum", "(", "[", "\"", "c", "\"", ",", " ", "\"", "f", "\"", "]", ")">>,
     <<" ", "tags", ":", " ", "z", ".", "array", "(", "z", ".", "string", "(", ")", ")">>,
     <<" ", "place", ":", " ", "z", ".", "object", "(", "{", " ", "street", ":", " ", "z", ".", "string", "(", ")", " ", "}", ")">>}

\* const <schemaVar> = z.object({
\*  <other>,
\*  <name>: z.<type>(),
\*  ...
\* });
SchemaDeclWith(schemaVar, other, fields) ==
    <<"const", " ">> \o schemaVar
        \o <<" ", "=", " ", "z", ".", "object", "(", "{", "\n">>
        \o Join(<<other>> \o [i \in 1..Len(fields) |-> FieldText(fields[i])],
                <<",", "\n">>)
        \o <<"\n", "}", ")", ";", "\n">>

\* Bounds
MaxDecls == 2
MaxTools == 2
MaxItems == 3
MaxFields == 2
MaxEdits == 1
MaxRuns == 2
MaxSkillTools == 2
MaxSkillRuns == 1
MaxAuthRuns == 3

\* The sequences of at most n distinct elements of S
SeqsOf(S, n) ==
    UNION {{s \in [1..k -> S] : \A i, j \in 1..k : i # j => s[i] # s[j]} :
           k \in 0..n}

DeclItems == {ClassAlpha, ClassBeta, ConstAlpha, FunctionTwice}

ToolItems == {ToolWrap, ToolBoth, ToolLocal, ToolDouble, ToolShared,
              ToolNoDescription, ClassToolCall}

\* index.ts files for the extraction: declarations, then at least one
\* skill.addTool call
ExtractSources ==
    {p[1] \o p[2] :
        p \in {q \in SeqsOf(DeclItems, MaxDecls) \X SeqsOf(ToolItems, MaxTools) :
                  q[2] # <<>> /\ Len(q[1]) + Len(q[2]) <= MaxItems}}
    \cup {<<FunctionLoad, ToolLoad>>, <<FunctionLoad, ToolLoad, ToolDouble>>}
    \cup {<<ClassGammaOpen, ToolGamma>>, <<ClassGammaOpen, ToolGamma, ToolEcho>>,
          <<ClassAlpha, ClassGammaOpen, ToolBoth>>}
    \cup {<<ClassAlpha, ConstAlphaArgs, ToolShared>>,
          <<FunctionAsyncTwice, ToolDouble>>}

FieldNames == {<<"city">>, <<"days">>, <<"metric">>}
FieldTypes == {"string", "number", "boolean"}
Fields == [name : FieldNames, type : FieldTypes]

\* The field lists of an object literal: no key twice
FieldLists ==
    UNION {{fs \in [1..k -> Fields] :
               \A i, j \in 1..k : i # j => fs[i].name # fs[j].name} :
           k \in 0..MaxFields}

SchemaSources ==
    {<<SchemaDecl(<<"inSchema">>, fs), SchemaDecl(<<"outSchema">>, <<>>),
       ToolEcho>> : fs \in FieldLists}
    \cup {<<SchemaDecl(<<"inputSchema">>, fs),
            SchemaDecl(<<"outputSchema">>, <<>>),
            ToolShorthand>> : fs \in FieldLists}
    \cup {<<SchemaDeclWith(<<"inSchema">>, q[1], q[2]),
            SchemaDecl(<<"outSchema">>, <<>>),
            ToolEcho>> : q \in OtherFields \X FieldLists}

\* index.ts files for the command
ProjectSources ==
    {<<>>,
     <<ToolEcho>>,
     <<ToolEcho, ToolEchoAgain>>,
     <<ToolEchoAgain, ToolEcho>>,
     <<ImportAxios \o ToolFetch>>,
     <<ClassToolCall, ToolEcho>>}

ProjectFiles ==
    (<<"tools", "/", "GetWeatherTool">> :> File(GetWeatherToolTs))
    @@ (<<"services", "/", "GetWeather">> :> File(GetWeatherTs))
    @@ (<<"tools", "/", "FetchTool">> :> File(FetchToolTs))
    @@ (<<"tools", "/", "TwoServicesTool">> :> File(TwoServicesToolTs))

PackageJsons ==
    {[exists |-> TRUE, version |-> <<"1.0.0">>, name |-> <<"test-skill">>],
     [exists |-> TRUE, version |-> <<"2.1.0">>, name |-> <<>>]}

NoPackageJson == [exists |-> FALSE, version |-> <<>>, name |-> <<>>]

NoIndex == [exists |-> FALSE, items |-> <<>>]

Packages == {<<"axios">>}

\* ------------------------------------------------------------------------
\* State
\* ------------------------------------------------------------------------

\* packageJson, indexTs, files : the project's files the command reads
\* bundler : what the build does for each installed package
\* luaDir, deployJson, toolFiles, tmpFiles : the .lua directory, its
\*     deploy.json, its <name>.js files and the bundler's files left in it
\* lastRun : how the last run of the command ended
\* runs, edits : the runs so far, the edits since the last run
\* rerun : the last run came right after a successful run, nothing edited
\* calls, warnings : what the last run's extraction reported
\* skillTools : the tools array of a LuaSkill
\* skillLog : the execute calls its tools have received, in order
\* skillOut, skillRuns : the last run(input) and how it settled, the runs
\* keychain : the API key in the system keychain
\* authCmd, authCalls, authExit : the last configure or destroy command, the
\*     calls of services/auth it made and its exit code
\* authRuns : the configure and destroy commands run so far
VARIABLES packageJson, indexTs, files, bundler, luaDir, deployJson,
          toolFiles, tmpFiles, lastRun, runs, edits, rerun, calls, warnings,
          skillTools, skillLog, skillOut, skillRuns,
          keychain, authCmd, authCalls, authExit, authRuns,
          queue, running

inputs == <<packageJson, indexTs, files, bundler>>
outputs == <<luaDir, deployJson, toolFiles, tmpFiles>>
project == <<packageJson, indexTs, files, bundler, luaDir, deployJson,
             toolFiles, tmpFiles, lastRun, runs, edits, rerun, calls,
             warnings>>
skill == <<skillTools, skillLog, skillOut, skillRuns>>
auth == <<keychain, authCmd, authCalls, authExit, authRuns>>
\* The bundler calls of a compile taken one step at a time
bundling == <<queue, running>>
\* What the deploy command and the edits of the project leave alone
library == <<skill, auth, bundling>>
vars == <<packageJson, indexTs, files, bundler, luaDir, deployJson,
          toolFiles, tmpFiles, lastRun, runs, edits, rerun, calls, warnings,
          skillTools, skillLog, skillOut, skillRuns,
          keychain, authCmd, authCalls, authExit, authRuns,
          queue, running>>

Disk == [luaDir |-> luaDir, deployJson |-> deployJson,
         toolFiles |-> toolFiles, tmpFiles |-> tmpFiles]

\* new LuaSkill(apiKey), before any call
NewSkill ==
    /\ skillTools = <<>>
    /\ skillLog = <<>>
    /\ skillOut = NoRun
    /\ skillRuns = 0

\* No compile is under way: state is "idle" before extractSkillInfo is
\* called and "scanning" from then on; todo holds the packages of the
\* bundlePackageCode calls still to make, launched the entry files of the
\* calls made.
NoBundling ==
    /\ queue = [state |-> "idle", todo |-> <<>>, launched |-> <<>>]
    /\ running = {}

\* A machine on which no key is stored and no command has run
NoCommand ==
    /\ keychain = NoKey
    /\ authCmd = "none"
    /\ authCalls = <<>>
    /\ authExit = 0
    /\ authRuns = 0

\* A project in which the command has not run yet
Fresh ==
    /\ luaDir = FALSE
    /\ deployJson = NoManifest
    /\ toolFiles = <<>>
    /\ tmpFiles = {}
    /\ lastRun = "none"
    /\ runs = 0
    /\ edits = 0
    /\ rerun = FALSE
    /\ calls = <<>>
    /\ warnings = 0
    /\ NewSkill
    /\ NoCommand
    /\ NoBundling

Init ==
    /\ packageJson \in PackageJsons \cup {NoPackageJson}
    /\ indexTs \in [exists : {TRUE}, items : ProjectSources] \cup {NoIndex}
    /\ files = ProjectFiles
    /\ bundler \in [Packages -> {"ok", "throws"}]
    /\ Fresh

InitExtract ==
    /\ packageJson \in {[exists |-> TRUE, version |-> <<"1.0.0">>,
                          name |-> <<"test-skill">>]}
    /\ indexTs \in [exists : {TRUE}, items : ExtractSources]
    /\ files = ProjectFiles
    /\ bundler \in [Packages -> {"ok"}]
    /\ Fresh

InitSchema ==
    /\ packageJson \in PackageJsons
    /\ indexTs \in [exists : {TRUE}, items : SchemaSources]
    /\ files = ProjectFiles
    /\ bundler \in [Packages -> {"ok"}]
    /\ Fresh

\* `lua deploy`
DeployCommand ==
    /\ runs < MaxRuns
    /\ \E r \in {deployCommand(packageJson, indexTs, files, bundler, Disk)} :
       /\ luaDir' = r.disk.luaDir
       /\ deployJson' = r.disk.deployJson
       /\ toolFiles' = r.disk.toolFiles
       /\ tmpFiles' = r.disk.tmpFiles
       /\ lastRun' = IF r.exit = 0 THEN "ok" ELSE "exit1"
       /\ calls' = r.calls
       /\ warnings' = r.warnings
       /\ runs' = runs + 1
       /\ edits' = 0
       /\ rerun' = (lastRun = "ok" /\ edits = 0)
       /\ UNCHANGED <<inputs, library>>

\* The developer's edits between two runs of the command (Init already
\* ranges over the projects the first run can meet)
WriteIndex ==
    /\ lastRun # "none"
    /\ edits < MaxEdits
    /\ \E src \in ProjectSources :
          /\ indexTs # [exists |-> TRUE, items |-> src]
          /\ indexTs' = [exists |-> TRUE, items |-> src]
    /\ edits' = edits + 1
    /\ UNCHANGED <<packageJson, files, bundler, outputs, lastRun, runs,
                   rerun, calls, warnings,
                   library>>

RemoveIndex ==
    /\ lastRun # "none"
    /\ edits < MaxEdits
    /\ indexTs.exists
    /\ indexTs' = NoIndex
    /\ edits' = edits + 1
    /\ UNCHANGED <<packageJson, files, bundler, outputs, lastRun, runs,
                   rerun, calls, warnings,
                   library>>

WritePackageJson ==
    /\ lastRun # "none"
    /\ edits < MaxEdits
    /\ \E pj \in PackageJsons :
          /\ pj # packageJson
          /\ packageJson' = pj
    /\ edits' = edits + 1
    /\ UNCHANGED <<indexTs, files, bundler, outputs, lastRun, runs, rerun,
                   calls, warnings,
                   library>>

RemovePackageJson ==
    /\ lastRun # "none"
    /\ edits < MaxEdits
    /\ packageJson.exists
    /\ packageJson' = NoPackageJson
    /\ edits' = edits + 1
    /\ UNCHANGED <<indexTs, files, bundler, outputs, lastRun, runs, rerun,
                   calls, warnings,
                   library>>

Next ==
    \/ DeployCommand
    \/ WriteIndex
    \/ RemoveIndex
    \/ WritePackageJson
    \/ RemovePackageJson

Spec == Init /\ [][Next]_vars

\* The first run alone, on every index.ts built from the declaration and
\* tool fragments
DeployExtract ==
    /\ lastRun = "none"
    /\ DeployCommand

SpecExtract == InitExtract /\ [][DeployExtract]_vars

\* The first run alone, on every list of primitive fields
DeploySchema ==
    /\ lastRun = "none"
    /\ DeployCommand

SpecSchema == InitSchema /\ [][DeploySchema]_vars

\* The bundler: index.ts files importing external packages, against every
\* outcome of the build for each installed package
BundlePackages == {<<"axios">>, <<"lodash">>}

BundleSources ==
    {<<ImportAxios, ToolFetch>>,
     <<ImportLodash, ToolChunk>>,
     <<ImportAxios, ToolFetch, ToolEcho>>,
     <<ImportLodash, ToolChunk, ToolEcho>>,
     <<ImportAxios, ImportLodash, ToolFetch>>,
     <<ImportAxios, ImportLodash, ToolFetch, ToolChunk>>,
     <<ClassFetchCall>>,
     <<ImportAxios, ToolFetch, ClassFetchCall>>,
     <<ImportLodashDefault, ImportLodash, ToolChunk>>}

InitBundle ==
    /\ packageJson \in {[exists |-> TRUE, version |-> <<"1.0.0">>,
                          name |-> <<"test-skill">>]}
    /\ indexTs \in [exists : {TRUE}, items : BundleSources]
    /\ files = ProjectFiles
    /\ bundler \in [BundlePackages -> BundleOutcomes]
    /\ Fresh

DeployBundle ==
    /\ lastRun = "none"
    /\ DeployCommand

SpecBundle == InitBundle /\ [][DeployBundle]_vars

\* The class-based tools: index.ts files adding tools by class, against the
\* tool file as written, without one of its parts, and missing
ClassItems ==
    {ClassToolCall, ClassFetchCall, ClassMissingCall, ClassTwoCall, ToolEcho}

ClassSources == SeqsOf(ClassItems, MaxItems) \ {<<>>}

FetchToolPath == <<"tools", "/", "FetchTool">>

\* The parts of the tool file the extraction asks for:
\*   this.name = "fetch_url";
\*   this.description = "Fetch";
\*   const inputSchema = z.object({
\*    url: z.string()
\*   });
\*    async execute(input: any) {
\*     const r = await axios.get(input.url);
\*     return chunk(r.data, 2);
\*    }
FetchToolParts ==
    {<<"this", ".", "name", " ", "=", " ", "\"", "fetch_url", "\"", ";">>,
     <<"this", ".", "description", " ", "=", " ", "\"", "Fetch", "\"", ";">>,
     <<"const", " ", "inputSchema", " ", "=", " ", "z", ".", "object", "(",
       "{", "\n", " ", "url", ":", " ", "z", ".", "string", "(", ")", "\n", "}",
       ")", ";", "\n">>,
     <<" ", "async", " ", "execute", "(", "input", ":", " ", "any", ")", " ",
       "{", "\n", " ", " ", "const", " ", "r", " ", "=", " ", "await", " ",
       "axios", ".", "get", "(", "input", ".", "url", ")", ";", "\n", " ", " ",
       "return", " ", "chunk", "(", "r", ".", "data", ",", " ", "2", ")", ";",
       "\n", " ", "}", "\n">>}

ClassFileSystems ==
    {ProjectFiles,
     [f \in DOMAIN ProjectFiles \ {FetchToolPath} |-> ProjectFiles[f]]}
    \cup {[ProjectFiles EXCEPT
              ![FetchToolPath] = File(RemoveFirst(FetchToolTs, part))] :
          part \in FetchToolParts}

InitClass ==
    /\ packageJson \in {[exists |-> TRUE, version |-> <<"1.0.0">>,
                          name |-> <<"test-skill">>]}
    /\ indexTs \in [exists : {TRUE}, items : ClassSources]
    /\ files \in ClassFileSystems
    /\ bundler \in [BundlePackages -> {"ok"}]
    /\ Fresh

DeployClass ==
    /\ lastRun = "none"
    /\ DeployCommand

SpecClass == InitClass /\ [][DeployClass]_vars

\* The compile one bundler call at a time.  extractSkillInfo is entered;
\* each bundlePackageCode call writes its entry file and waits for the
\* build; when the last one has returned the manifest is written.
ExtractStart ==
    /\ lastRun = "none"
    /\ queue.state = "idle"
    /\ packageJson.exists
    /\ indexTs.exists
    /\ queue' = [state |-> "scanning",
                 todo |-> Requests(extractSkillInfo(IndexContent(indexTs),
                                                    files, bundler).calls),
                 launched |-> <<>>]
    /\ UNCHANGED <<project, skill, auth, running>>

\* bundlePackageCode up to `await build(...)`
BundleStart ==
    /\ queue.state = "scanning"
    /\ queue.todo # <<>>
    /\ Awaited(running)
    /\ running' = running
                  \cup {[id |-> Len(queue.launched) + 1,
                         entry |-> EntryFile(Head(queue.todo))]}
    /\ queue' = [queue EXCEPT !.todo = Tail(@),
                              !.launched = Append(@, EntryFile(Head(queue.todo)))]
    /\ UNCHANGED <<project, skill, auth>>

\* The build settles and bundlePackageCode returns
BundleEnd ==
    /\ \E r \in running : running' = running \ {r}
    /\ UNCHANGED <<project, skill, auth, queue>>

\* The last call has returned: the scan ends and the output is written
DeployEnd ==
    /\ queue.state = "scanning"
    /\ queue.todo = <<>>
    /\ running = {}
    /\ lastRun = "none"
    /\ DeployCommand

NextSteps ==
    \/ ExtractStart
    \/ BundleStart
    \/ BundleEnd
    \/ DeployEnd

SpecSteps == InitBundle /\ [][NextSteps]_vars

\* A skill built and run by a program: tools of two names over the schemas
\* with the fields city and days, and the inputs a caller can hand to run
ToolNames == {"get_weather", "get_time"}

SkillTools == [name : ToolNames, inputSchema : SUBSET {"city", "days"}]

SkillValues ==
    [tool |-> {<<"string", n>> : n \in ToolNames \cup {"non_existent_tool"}},
     city |-> {<<"string", "London">>, <<"number", "3">>},
     days |-> {<<"string", "London">>, <<"number", "3">>}]

SkillInputs ==
    UNION {{input \in [D -> UNION {SkillValues[k] : k \in D}] :
               \A k \in D : input[k] \in SkillValues[k]} :
           D \in SUBSET {"tool", "city", "days"}}

InitNoProject ==
    /\ packageJson = NoPackageJson
    /\ indexTs = NoIndex
    /\ files = ProjectFiles
    /\ bundler = [p \in Packages |-> "ok"]
    /\ Fresh

\* skill.addTool(tool)
AddTool ==
    /\ Len(skillTools) < MaxSkillTools
    /\ \E tool \in SkillTools : skillTools' = Append(skillTools, tool)
    /\ UNCHANGED <<project, auth, bundling, skillLog, skillOut, skillRuns>>

\* await skill.run(input)
Run ==
    /\ skillRuns < MaxSkillRuns
    /\ \E input \in SkillInputs :
          \E r \in {run(skillTools, input)} :
             /\ skillOut' = [input |-> input, error |-> r.error]
             /\ skillLog' = IF r.executed
                            THEN Append(skillLog, [tool |-> r.tool,
                                                   input |-> r.passed])
                            ELSE skillLog
    /\ skillRuns' = skillRuns + 1
    /\ UNCHANGED <<project, auth, bundling, skillTools>>

NextSkill == AddTool \/ Run

SpecSkill == InitNoProject /\ [][NextSkill]_vars

\* The commands that touch the keychain, against every answer of the user
\* and every way the calls of services/auth settle
ConfigureAnswers ==
    [authMethod : {"api-key", "email"}, apiKey : {"key-a", "key-b"},
     email : {"dev@example.com"}, pin : {"123456"}]

ConfigureService ==
    [check : {"data", "null", "notok", "throws"}, otp : BOOLEAN,
     token : {"token", "null"}, generated : {"key-g", "null"},
     save : {"ok", "throws"}]

\* `lua configure`
ConfigureCommand ==
    /\ authRuns < MaxAuthRuns
    /\ \E answers \in ConfigureAnswers, service \in ConfigureService :
          \E r \in {configureCommand(keychain, answers, service)} :
             /\ keychain' = r.keychain
             /\ authCalls' = r.calls
             /\ authExit' = r.exit
    /\ authCmd' = "configure"
    /\ authRuns' = authRuns + 1
    /\ UNCHANGED <<project, skill, bundling>>

\* `lua destroy`
DestroyCommand ==
    /\ authRuns < MaxAuthRuns
    /\ \E answers \in [confirm : BOOLEAN], service \in [deleted : BOOLEAN] :
          \E r \in {destroyCommand(keychain, answers, service)} :
             /\ keychain' = r.keychain
             /\ authCalls' = r.calls
             /\ authExit' = r.exit
    /\ authCmd' = "destroy"
    /\ authRuns' = authRuns + 1
    /\ UNCHANGED <<project, skill, bundling>>

NextAuth == ConfigureCommand \/ DestroyCommand

SpecAuth == InitNoProject /\ [][NextAuth]_vars

\* ------------------------------------------------------------------------
\* Reading an emitted execute string
\* ------------------------------------------------------------------------

Keywords == {"async", "await", "return", "new", "const", "let", "var",
             "class", "function", "this", "import", "from", "export",
             "default", "implements"}

Numerals == {"0", "1", "2", "3", "4", "5", "6", "7", "8", "9"}

Declarators == {"const", "let", "var", "class", "function"}

\* What a fresh JavaScript environment and the arrow function provide
Builtins == {<<"input">>, <<"require">>, <<"module">>, <<"exports">>,
             <<"fetch">>, <<"console">>, <<"JSON">>, <<"Promise">>,
             <<"Error">>}

\* The greatest element of a set of positions, 0 for the empty set.
Last(S) == IF S = {} THEN 0 ELSE CHOOSE x \in S : \A y \in S : y <= x

\* An identifier starts at i; the identifier that starts there
IdentStart(t, i) == IsWord(At(t, i)) /\ ~IsWord(At(t, i - 1))
Ident(t, i) == SubSeq(t, i, WordEnd(t, i) - 1)

\* The last atom before i that is not white space
PrevCode(t, i) == Last({j \in 1..(i - 1) : ~IsSpace(t[j])})

\* Position i lies inside a string literal
InString(t, i) == Cardinality({j \in 1..(i - 1) : t[j] \in Quotes}) % 2 = 1

\* The parenthesis at p opens a parameter list: its closing parenthesis is
\* followed by the brace of a body or by the arrow
CloseParen(t, p) == First({j \in p..Len(t) : t[j] = ")"})
OpensParams(t, p) ==
    /\ At(t, p) = "("
    /\ CloseParen(t, p) # 0
    /\ At(t, SkipSpaces(t, CloseParen(t, p) + 1)) \in {"{", "=>"}
InParams(t, i) ==
    \E p \in {Last({j \in 1..(i - 1) : t[j] = "("})} :
        p # 0 /\ OpensParams(t, p) /\ i < CloseParen(t, p)

\* The identifier at i is the name of a method or function being declared
DeclaresMember(t, i) == OpensParams(t, WordEnd(t, i))

\* The identifier at i is declared there: after a declarator, in a
\* destructuring pattern after one, or as a parameter
Binds(t, i) ==
    /\ IdentStart(t, i)
    /\ ~InString(t, i)
    /\ \/ At(t, PrevCode(t, i)) \in Declarators
       \/ /\ At(t, PrevCode(t, i)) = "{"
          /\ At(t, PrevCode(t, PrevCode(t, i))) \in Declarators
       \/ InParams(t, i)

\* The identifier at i is read there: not a keyword, a number, a property
\* name after a dot, an object key before a colon, or a declaration
Refers(t, i) ==
    /\ IdentStart(t, i)
    /\ ~InString(t, i)
    /\ ~(WordEnd(t, i) = i + 1 /\ t[i] \in Keywords \cup Numerals)
    /\ At(t, i - 1) # "."
    /\ At(t, SkipSpaces(t, WordEnd(t, i))) # ":"
    /\ ~Binds(t, i)
    /\ ~DeclaresMember(t, i)

BoundNames(t) == {Ident(t, i) : i \in {j \in 1..Len(t) : Binds(t, j)}}
ReferredNames(t) == {Ident(t, i) : i \in {j \in 1..Len(t) : Refers(t, j)}}

\* The identifiers an execute string reads and neither declares nor gets
\* from the environment
FreeIdentifiers(t) == ReferredNames(t) \ (BoundNames(t) \cup Builtins)

\* ------------------------------------------------------------------------
\* Properties of the compiled tools
\* ------------------------------------------------------------------------

\* The texts of the project and the names they declare
ProjectTexts ==
    {IndexContent(indexTs)} \cup {files[p].text : p \in DOMAIN files}

DeclaredInProject == UNION {BoundNames(t) : t \in ProjectTexts}

\* C1: every execute string of the manifest is self-contained: each class,
\* function, variable, parameter or package binding of the project that the
\* string reads is declared inside the string, so that its only free
\* identifiers are built-in globals and the input parameter and calling it
\* in a fresh environment raises no ReferenceError.
ExecuteSelfContained ==
    \A k \in 1..Len(deployJson.tools) :
        FreeIdentifiers(deployJson.tools[k].execute) \cap DeclaredInProject = {}

\* The number of braces open before position i
Depth(t, i) ==
    Cardinality({j \in 1..(i - 1) : t[j] = "{"})
    - Cardinality({j \in 1..(i - 1) : t[j] = "}"})

BracesBalanced(t) ==
    /\ Depth(t, Len(t) + 1) = 0
    /\ \A i \in 1..Len(t) : Depth(t, i) >= 0

\* An item of index.ts that is an inline declaration skill.addTool({...})
IsInlineTool(item) == StartsWith(item, <<"skill", ".", "addTool", "(", "{">>)

\* Where the object literal of an inline declaration has the key f, 0 when
\* it has none
FieldPos(item, f) ==
    First({i \in 1..Len(item) :
              /\ item[i] = f
              /\ At(item, i + 1) = ":"
              /\ Depth(item, i) = 1
              /\ ~InString(item, i)})

ToolFields == {"name", "description", "inputSchema", "outputSchema", "execute"}

WellFormed(item) == \A f \in ToolFields : FieldPos(item, f) # 0

\* The string literal an inline declaration gives for its name
DeclaredName(item) ==
    LET q == First({j \in FieldPos(item, "name")..Len(item) :
                       item[j] \in Quotes})
    IN SubSeq(item, q + 1, NotEnd(item, q + 1, Quotes) - 1)

\* The body of the arrow function an inline declaration gives for execute:
\* the text between its opening brace and the brace that closes it
DeclaredBody(item) ==
    LET open == NextBrace(item, First({j \in 1..Len(item) : item[j] = "=>"}))
    IN SubSeq(item, open + 1, ClassEnd(item, open, 0) - 1)

ManifestNames ==
    [k \in 1..Len(deployJson.tools) |-> deployJson.tools[k].name]

\* C2: the execute body is taken up to the brace that matches the opening
\* brace of the function: every execute string of the manifest has balanced
\* braces, and the string compiled from an inline declaration contains the
\* declaration's complete body.
ExecuteBodyComplete ==
    \A k \in 1..Len(deployJson.tools) :
        /\ BracesBalanced(deployJson.tools[k].execute)
        /\ \A n \in 1..Len(indexTs.items) :
              (/\ IsInlineTool(indexTs.items[n])
               /\ WellFormed(indexTs.items[n])
               /\ DeclaredName(indexTs.items[n]) = deployJson.tools[k].name)
              => Includes(deployJson.tools[k].execute,
                          Trim(StripTypes(DeclaredBody(indexTs.items[n]))))

\* The names the class-based tools of the project give themselves
ClassToolNames ==
    {Cap(Match(files[p].text, thisNameRegex), 1) : p \in DOMAIN files}

\* C4: whatever malformed inline declarations (lacking one of the five
\* fields) index.ts holds and wherever they stand, the run succeeds and the
\* inline tools of the manifest are exactly the well-formed declarations,
\* in the order of the file.
ManifestIsWellFormedDeclarations ==
    lastRun = "ok" =>
        SelectSeq(ManifestNames, LAMBDA n : n \notin ClassToolNames)
        = LET wf == SelectSeq(indexTs.items,
                              LAMBDA it : IsInlineTool(it) /\ WellFormed(it))
          IN [k \in 1..Len(wf) |-> DeclaredName(wf[k])]

\* The positions of an execute string that declare a binding in the top
\* level scope of the function
TopLevelBindings(t) ==
    {i \in 1..Len(t) :
        /\ At(t, PrevCode(t, i)) \in Declarators
        /\ Binds(t, i)
        /\ Depth(t, i) = 1}

\* C6: no execute string of the manifest declares a binding name twice in
\* the top level scope of the function: a binding is emitted once over the
\* binding and instantiation steps, and a const, let or var of the body is
\* not emitted again as a fragment ahead of it.
BindingsDeclaredOnce ==
    \A k \in 1..Len(deployJson.tools) :
        \A i, j \in TopLevelBindings(deployJson.tools[k].execute) :
            i # j => Ident(deployJson.tools[k].execute, i)
                     # Ident(deployJson.tools[k].execute, j)

\* Where an execute string defines a class: the positions of the keyword
ClassStarts(t) ==
    {j \in 1..Len(t) :
        /\ t[j] = "class"
        /\ IsSpace(At(t, j + 1))
        /\ IdentStart(t, SkipSpaces(t, j + 1))
        /\ ~InString(t, j)}

ClassName(t, j) == Ident(t, SkipSpaces(t, j + 1))

\* Where an execute string instantiates a class: the positions of `new`
NewAt(t) ==
    {i \in 1..Len(t) :
        /\ t[i] = "new"
        /\ IsSpace(At(t, i + 1))
        /\ IdentStart(t, SkipSpaces(t, i + 1))
        /\ ~InString(t, i)}

\* Position i lies inside the definition of a class
InsideClass(t, i) ==
    \E j \in ClassStarts(t) : j < i /\ i < ClassEnd(t, j, 0)

\* The instantiation at i comes after the keyword of every definition of
\* its class / after the end of every definition of its class
AfterClassStart(t, i) ==
    \A j \in ClassStarts(t) : ClassName(t, j) = ClassName(t, i) => j < i
AfterClassEnd(t, i) ==
    \A j \in ClassStarts(t) :
        ClassName(t, j) = ClassName(t, i) => ClassEnd(t, j, 0) < i

\* C5 as stated: in every execute string of the manifest every `new C(...)`
\* of a class C defined in the string comes after the definition of C, the
\* instantiations inside the bodies of other emitted classes included.
InstantiationsAfterClass ==
    \A k \in 1..Len(deployJson.tools) :
        \A i \in NewAt(deployJson.tools[k].execute) :
            AfterClassStart(deployJson.tools[k].execute, i)

\* C5 as amended: in every execute string of the manifest every
\* `new C(...)` that stands outside the emitted class definitions, for a
\* class C defined in the string, comes after the whole definition of C.
InstantiationsOutsideClassesAfterClass ==
    \A k \in 1..Len(deployJson.tools) :
        \A i \in NewAt(deployJson.tools[k].execute) :
            ~InsideClass(deployJson.tools[k].execute, i)
            => AfterClassEnd(deployJson.tools[k].execute, i)

\* A manifest with an execute string that instantiates, outside the class
\* definitions, a class it defines
InstantiatesEmittedClass ==
    \E k \in 1..Len(deployJson.tools) :
        \E i \in NewAt(deployJson.tools[k].execute) :
            /\ ~InsideClass(deployJson.tools[k].execute, i)
            /\ \E j \in ClassStarts(deployJson.tools[k].execute) :
                  ClassName(deployJson.tools[k].execute, j)
                  = ClassName(deployJson.tools[k].execute, i)

\* ------------------------------------------------------------------------
\* Properties of the schema translation
\* ------------------------------------------------------------------------

\* The schema the claim expects for a list of primitive fields
DeclaredSchema(fs) ==
    [type |-> "object",
     properties |-> {<<fs[i].name, fs[i].type>> : i \in 1..Len(fs)},
     required |-> [i \in 1..Len(fs) |-> fs[i].name]]

\* What a compiled schema says, its properties read as key-value pairs
CompiledSchema(js) ==
    [type |-> js.type,
     properties |-> {<<js.properties[i].name, js.properties[i].type>> :
                        i \in 1..Len(js.properties)},
     required |-> js.required]

OtherNames ==
    {<<"note">>, <<"count">>, <<"unit">>, <<"tags">>, <<"place">>,
     <<"street">>}

\* C24: a schema field whose declaration is not a bare primitive builder
\* call (a primitive followed by a modifier, an enum, an array, a nested
\* object) appears neither in properties nor in required of the translated
\* schema, and neither does a field of a nested object.
OtherFieldsLeftOut ==
    \A k \in 1..Len(deployJson.tools) :
        /\ \A i \in 1..Len(deployJson.tools[k].inputSchema.properties) :
              deployJson.tools[k].inputSchema.properties[i].name
              \notin OtherNames
        /\ \A i \in 1..Len(deployJson.tools[k].inputSchema.required) :
              deployJson.tools[k].inputSchema.required[i] \notin OtherNames

\* ------------------------------------------------------------------------
\* Properties of the command
\* ------------------------------------------------------------------------

\* The step is a run of the command
Ran == runs' = runs + 1

\* C7: a run that comes right after a successful run, with no edit in
\* between and the same bundler, succeeds and writes the manifest the first
\* run wrote: same tools in the same order, same schemas, same execute
\* strings.
CompileTwiceSameManifest ==
    [][(Ran /\ lastRun = "ok" /\ edits = 0)
        => (lastRun' = "ok" /\ deployJson' = deployJson)]_vars

\* A second successful run on an unchanged project that declares tools
CompiledTwiceInARow ==
    /\ rerun
    /\ lastRun = "ok"
    /\ deployJson.tools # <<>>

\* C8: a run of the command with package.json or index.ts missing exits
\* with code 1 and writes nothing: the output directory, the manifest, the
\* per-tool files and the temporary files are as they were.
MissingInputNoWrite ==
    [][(Ran /\ (~packageJson.exists \/ ~indexTs.exists))
        => (lastRun' = "exit1" /\ UNCHANGED outputs)]_vars

\* A failed run in a project that an earlier run compiled
FailedRunAfterCompile ==
    /\ lastRun = "exit1"
    /\ edits = 0
    /\ ~packageJson.exists \/ ~indexTs.exists
    /\ deployJson.exists
    /\ deployJson.tools # <<>>

\* C9: after a successful run every tool of the manifest has its file
\* .lua/<name>.js, and the file holds exactly the execute string of that
\* tool, also when two declarations share a name.
ToolFilesHoldExecute ==
    lastRun = "ok" =>
        \A k \in 1..Len(deployJson.tools) :
            /\ deployJson.tools[k].name \in DOMAIN toolFiles
            /\ toolFiles[deployJson.tools[k].name]
               = deployJson.tools[k].execute

\* C10: after a successful run the manifest on disk is the version and name
\* of the package.json of that run (or their defaults) with the tools
\* extracted from the index.ts of that run, and nothing else.
ManifestFromLastInputs ==
    (lastRun = "ok" /\ edits = 0) =>
        /\ deployJson.exists
        /\ deployJson.version
           = (IF packageJson.version # <<>> THEN packageJson.version
              ELSE <<"1.0.0">>)
        /\ deployJson.skillsName
           = (IF packageJson.name # <<>> THEN packageJson.name
              ELSE <<"lua-skill">>)
        /\ deployJson.tools
           = extractSkillInfo(IndexContent(indexTs), files, bundler).tools

\* A successful run after an earlier one that compiled another tool: the
\* file of that tool is on disk, the manifest does not list it
CompiledAfterOtherTools ==
    /\ lastRun = "ok"
    /\ edits = 0
    /\ deployJson.tools # <<>>
    /\ \E n \in DOMAIN toolFiles :
          \A k \in 1..Len(deployJson.tools) : deployJson.tools[k].name # n


\* ------------------------------------------------------------------------
\* Claims on the bundler
\* ------------------------------------------------------------------------

\* C11: whenever the build of a package produces no bundle (it throws,
\* reports errors or leaves no output file), bundlePackageCode returns the
\* fetch-based implementation for axios, and null after a warning for every
\* other package.
FallbackExactlyForAxios ==
    \A k \in 1..Len(calls) :
        Outcome(bundler, calls[k].pkg) # "ok" =>
            IF calls[k].pkg = <<"axios">>
            THEN /\ ~calls[k].null
                 /\ calls[k].code = createWorkingAxiosImplementation
            ELSE calls[k].null /\ calls[k].warned

\* The names the inline declarations of index.ts give, in the order of the
\* file
InlineDeclaredNames ==
    LET ds == SelectSeq(indexTs.items, IsInlineTool)
    IN [k \in 1..Len(ds) |-> DeclaredName(ds[k])]

\* The tool files index.ts imports
ClassFiles ==
    {f \in DOMAIN files :
        Includes(IndexContent(indexTs),
                 <<"from", " ", "\"", ".", "/">> \o f \o <<"\"">>)}

\* The execute string holds package code a bundlePackageCode call for the
\* package can return (the template indents the code it places)
HasBinding(execute, pkg) ==
    \/ Includes(execute, BundledContent(pkg))
    \/ /\ pkg = <<"axios">>
       /\ Includes(execute, Indent(createWorkingAxiosImplementation))

\* C12: when bundlePackageCode returned null for a package, the run still
\* succeeds, every inline declaration is in the manifest, in order, and so
\* is every class-based tool, and the execute strings hold no code for that
\* package.
NullBundleStillCompiles ==
    \A c \in 1..Len(calls) :
        calls[c].null =>
            /\ lastRun = "ok"
            /\ SelectSeq(ManifestNames, LAMBDA n : n \notin ClassToolNames)
               = InlineDeclaredNames
            /\ Len(ManifestNames)
               = Len(InlineDeclaredNames) + Cardinality(ClassFiles)
            /\ \A k \in 1..Len(deployJson.tools) :
                  ~HasBinding(deployJson.tools[k].execute, calls[c].pkg)

\* A run over two declarations in which lodash could not be bundled and
\* both tools were written
CompiledWithoutLodash ==
    /\ \E c \in 1..Len(calls) : calls[c].null /\ calls[c].pkg = <<"lodash">>
    /\ ManifestNames = <<<<"chunk">>, <<"echo">>>>
    /\ \E k \in 1..Len(deployJson.tools) :
          Includes(deployJson.tools[k].execute, <<"chunk", "(">>)

\* The number of places of the text where the pattern stands
Occurrences(t, pat) ==
    Cardinality({i \in 1..Len(t) : StartsWithAt(t, i, pat)})

\* The number of import statements of the text that name the package
ImportStatements(t, p) ==
    Occurrences(t, <<"from", " ", "\"">> \o p \o <<"\"">>)

\* The packages index.ts imports
ImportedPackages ==
    {p \in BundlePackages :
        Includes(IndexContent(indexTs), <<"from", " ", "\"">> \o p \o <<"\"">>)}

CallsFor(p) == {c \in 1..Len(calls) : calls[c].pkg = p}

ShorthandToolCompiled ==
    \A fs \in FieldLists :
        (/\ lastRun = "ok"
         /\ indexTs.items = <<SchemaDecl(<<"inputSchema">>, fs),
                              SchemaDecl(<<"outputSchema">>, <<>>),
                              ToolShorthand>>)
        => /\ ManifestNames = <<<<"get_weather">>>>
           /\ \A k \in 1..Len(deployJson.tools) :
                 /\ CompiledSchema(deployJson.tools[k].inputSchema)
                    = DeclaredSchema(fs)
                 /\ CompiledSchema(deployJson.tools[k].outputSchema)
                    = DeclaredSchema(<<>>)

\* ------------------------------------------------------------------------
\* Claims on LuaSkill
\* ------------------------------------------------------------------------

\* The tools added so far whose name is input.tool
Named(input) ==
    {k \in 1..Len(skillTools) :
        <<"string", skillTools[k].name>> = Get(input, "tool")}

Fns(log) == [n \in 1..Len(log) |-> log[n].fn]

\* The call did not give the command what it needs to go on
Failed(c) ==
    CASE c.fn = "checkApiKey" -> c.result # "data"
      [] c.fn = "requestEmailOTP" -> ~c.result
      [] c.fn \in {"verifyOTPAndGetToken", "generateApiKey"} ->
             c.result = "null"
      [] c.fn = "saveApiKey" -> c.result # "ok"
      [] OTHER -> FALSE

\* C16: a run of configureCommand calls saveApiKey only as its last call,
\* after checkApiKey accepted the typed key (which is the key it saves) or
\* after requestEmailOTP, verifyOTPAndGetToken and generateApiKey succeeded
\* in this order (it saves the generated key); the keychain changes only to
\* the key of a successful save; when a call fails the command exits with
\* code 1 and the keychain is as before.
SavesOnlyAfterSuccess ==
    [][(authRuns' = authRuns + 1 /\ authCmd' = "configure") =>
         LET log == authCalls'
         IN /\ (\E n \in 1..Len(log) : log[n].fn = "saveApiKey") =>
                  /\ \A n \in 1..(Len(log) - 1) : ~Failed(log[n])
                  /\ \/ /\ Fns(log) = <<"checkApiKey", "saveApiKey">>
                        /\ log[2].arg = log[1].arg
                     \/ /\ Fns(log) = <<"requestEmailOTP",
                                         "verifyOTPAndGetToken",
                                         "generateApiKey", "saveApiKey">>
                        /\ log[3].arg = log[2].result
                        /\ log[4].arg = log[3].result
            /\ keychain' # keychain =>
                  /\ authExit' = 0
                  /\ log[Len(log)] = Called("saveApiKey", keychain', "ok")
            /\ (\E n \in 1..Len(log) : Failed(log[n])) =>
                  authExit' = 1 /\ keychain' = keychain
            /\ authExit' = 0 =>
                  log[Len(log)] = Called("saveApiKey", keychain', "ok")]_vars

\* The email flow has run to its end over a key stored before and has
\* stored the generated key
ConfiguredByEmail ==
    /\ authCmd = "configure"
    /\ authRuns >= 2
    /\ authExit = 0
    /\ Len(authCalls) = 4
    /\ keychain = "key-g"

Imports(t, p) == Includes(t, <<"from", " ", "\"">> \o p \o <<"\"">>)

\* The bundlePackageCode calls the claim expects for a package: one for
\* every inline declaration and import statement of index.ts that names it,
\* one for every class-based tool whose file imports it
ExpectedCalls(p) ==
    ImportStatements(IndexContent(indexTs), p) * Len(InlineDeclaredNames)
    + Cardinality({f \in ClassFiles : Imports(files[f].text, p)})

\* C18: after a successful run, for inline and class-based tools alike,
\* every import of an external package in the scanned source (index.ts, the
\* tool's file), axios included, has given a bundlePackageCode call, and no
\* call was made for a local path, for lua-cli or for zod.
ExternalImportsBundled ==
    lastRun = "ok" =>
        /\ \A c \in 1..Len(calls) :
              /\ ~IsLocalPath(calls[c].pkg)
              /\ ~IsLuaCliPath(calls[c].pkg)
              /\ calls[c].pkg # <<"zod">>
        /\ \A p \in BundlePackages :
              Cardinality(CallsFor(p)) = ExpectedCalls(p)

\* ------------------------------------------------------------------------
\* Claims on the type annotations
\* ------------------------------------------------------------------------

\* C19: the execute string of every inline tool is free of the primitive and
\* Array/Promise/Record type annotations, whatever the local fragments
\* placed in it contain: stripping the annotations from it changes nothing.
FragmentsAreStripped ==
    \A k \in 1..Len(deployJson.tools) :
        deployJson.tools[k].name \notin ClassToolNames =>
            StripTypes(deployJson.tools[k].execute)
            = deployJson.tools[k].execute

\* ------------------------------------------------------------------------
\* Claims on the schemas of class-based tools
\* ------------------------------------------------------------------------

\* C20: the class-based tool of tools/GetWeatherTool.ts, whose file declares
\* the constants inputSchema and outputSchema with different fields, has in
\* the manifest the inputSchema compiled from the first and the outputSchema
\* compiled from the second, and the two differ.
ClassSchemasFromOwnConstants ==
    \A k \in 1..Len(deployJson.tools) :
        deployJson.tools[k].name = <<"get_weather">> =>
            /\ deployJson.tools[k].inputSchema
               = convertSchemaToJSON(
                     <<"inputSchema">>,
                     files[<<"tools", "/", "GetWeatherTool">>].text)
            /\ deployJson.tools[k].outputSchema
               = convertSchemaToJSON(
                     <<"outputSchema">>,
                     files[<<"tools", "/", "GetWeatherTool">>].text)
            /\ deployJson.tools[k].inputSchema
               # deployJson.tools[k].outputSchema

\* ------------------------------------------------------------------------
\* Claims on the temporary files and the output directory
\* ------------------------------------------------------------------------

\* C21: every bundlePackageCode call has returned with none of its
\* temporary files left, whether it returned a bundle, the fallback or
\* null, so the .lua directory holds no entry file and no bundle file.
NoTemporaryFilesRemain ==
    /\ \A c \in 1..Len(calls) : calls[c].left = {}
    /\ tmpFiles = {}

\* The entries for a package in an execute string: the places where the
\* bundle or the fallback stands
PackageEntries(execute, p) ==
    Occurrences(execute, BundledContent(p))
    + (IF p = <<"axios">>
       THEN Occurrences(execute, Indent(createWorkingAxiosImplementation))
       ELSE 0)

\* C22: every execute string of the manifest holds at most one entry for
\* each package, also when index.ts imports the package in several
\* statements.
OneEntryPerImportPath ==
    \A k \in 1..Len(deployJson.tools) :
        \A p \in BundlePackages :
            PackageEntries(deployJson.tools[k].execute, p) <= 1

\* ------------------------------------------------------------------------
\* Claims on the dependency closure
\* ------------------------------------------------------------------------

\* The positions of a text that declare a class, function or binding at
\* brace depth d
DeclaredAt(t, d) ==
    {i \in 1..Len(t) :
        /\ At(t, PrevCode(t, i)) \in Declarators
        /\ Binds(t, i)
        /\ Depth(t, i) = d}

\* The top-level declarations of index.ts, and the classes among them from
\* which a top-level variable that the body reads is instantiated
TopLevelNames == {Ident(IndexContent(indexTs), i) :
                     i \in DeclaredAt(IndexContent(indexTs), 0)}

InstantiatedClasses(body) ==
    LET t == IndexContent(indexTs)
    IN {Ident(t, SkipSpaces(t, SkipSpaces(t, SkipSpaces(t, WordEnd(t, i)) + 1)
                               + 1)) :
           i \in {j \in DeclaredAt(t, 0) :
                     /\ At(t, SkipSpaces(t, WordEnd(t, j))) = "="
                     /\ At(t, SkipSpaces(t, SkipSpaces(t, WordEnd(t, j)) + 1))
                        = "new"
                     /\ Ident(t, j) \in ReferredNames(body)}}

\* What the claim inlines for a body
ClosureOf(body) ==
    {n \in TopLevelNames :
        n \in ReferredNames(body) \/ n \in InstantiatedClasses(body)}

\* What an execute string declares ahead of the body it ends with: the
\* names it declares at its top level more often than the body itself does
InlinedNames(execute, body) ==
    {Ident(execute, i) :
        i \in {j \in DeclaredAt(execute, 1) :
                  Cardinality({e \in DeclaredAt(execute, 1) :
                                  Ident(execute, e) = Ident(execute, j)})
                  > Cardinality({b \in DeclaredAt(body, 0) :
                                    Ident(body, b) = Ident(execute, j)})}}

\* C23: the classes, functions and bindings inlined into the execute string
\* of an inline tool are exactly the top-level declarations of index.ts
\* whose name the tool's execute body reads as an identifier, and the
\* classes from which a top-level variable the body reads is instantiated;
\* a declaration nested in a function or tool body is not inlined.
ClosureIsTopLevelReferenced ==
    \A n \in 1..Len(indexTs.items) :
        \A k \in 1..Len(deployJson.tools) :
            (/\ IsInlineTool(indexTs.items[n])
             /\ WellFormed(indexTs.items[n])
             /\ DeclaredName(indexTs.items[n]) = deployJson.tools[k].name)
            => InlinedNames(deployJson.tools[k].execute,
                            DeclaredBody(indexTs.items[n]))
               = ClosureOf(DeclaredBody(indexTs.items[n]))

\* ------------------------------------------------------------------------
\* Claims on the class-based declarations
\* ------------------------------------------------------------------------

\* The tool file has every part the extraction asks for
Resolvable(fl) ==
    /\ FetchToolPath \in DOMAIN fl
    /\ fl[FetchToolPath].exists
    /\ \A part \in FetchToolParts : Includes(fl[FetchToolPath].text, part)

\* The tool a declaration of index.ts stands for: none when it cannot be
\* resolved
ToolOf(item, fl) ==
    IF item = ToolEcho THEN <<<<"echo">>>>
    ELSE IF item = ClassToolCall THEN <<<<"get_weather">>>>
    ELSE IF item = ClassTwoCall THEN <<<<"two_services">>>>
    ELSE IF item = ClassFetchCall /\ Resolvable(fl) THEN <<<<"fetch_url">>>>
    ELSE <<>>

RECURSIVE Flat(_)
Flat(ss) == IF ss = <<>> THEN <<>> ELSE Head(ss) \o Flat(Tail(ss))

Unresolved(items, fl) ==
    {i \in 1..Len(items) : ToolOf(items[i], fl) = <<>>}

\* C25: a class-based declaration that cannot be resolved (no import for
\* the class, tool file missing, no name or description, no input schema,
\* no execute method) is left out alone, with one warning; every other
\* inline and class-based tool is emitted (the inline ones first) and the
\* compile succeeds.
UnresolvedClassSkippedAlone ==
    lastRun # "none"
    => /\ lastRun = "ok"
       /\ deployJson.exists
       /\ ManifestNames
          = Flat(SelectSeq([i \in 1..Len(indexTs.items) |->
                               ToolOf(indexTs.items[i], files)],
                           LAMBDA t : t = <<<<"echo">>>>))
            \o Flat(SelectSeq([i \in 1..Len(indexTs.items) |->
                                  ToolOf(indexTs.items[i], files)],
                              LAMBDA t : t # <<<<"echo">>>>))
       /\ warnings = Cardinality(Unresolved(indexTs.items, files))

\* A compile that left out a class-based declaration, with a warning, and
\* emitted a class-based tool declared after it
SkippedOneEmittedNext ==
    /\ lastRun = "ok"
    /\ warnings = 1
    /\ \E i, j \in 1..Len(indexTs.items) :
          /\ i < j
          /\ i \in Unresolved(indexTs.items, files)
          /\ indexTs.items[j] = ClassToolCall
    /\ \E k \in 1..Len(ManifestNames) : ManifestNames[k] = <<"get_weather">>

\* ------------------------------------------------------------------------
\* Claims on what is left out silently
\* ------------------------------------------------------------------------

\* The text declares the schema constant: const X = z.object({
SchemaDeclared(t, X) ==
    Includes(t, <<"const", " ">> \o X
                \o <<" ", "=", " ", "z", ".", "object", "(", "{">>)

\* The identifier an inline declaration gives for the key f
SchemaNameOf(item, f) == <<item[SkipSpaces(item, FieldPos(item, f) + 2)]>>

\* The classes of the text whose opening brace is never closed
OpenClasses(t) ==
    {ClassName(t, j) : j \in {c \in ClassStarts(t) :
        ~\E i \in c..Len(t) : t[i] = "}" /\ Depth(t, i + 1) = Depth(t, c)}}

IsEmptySchema(js) ==
    js.type = "object" /\ js.properties = <<>> /\ ~js.hasRequired

\* C26: a schema identifier with no const X = z.object({...}); declaration
\* translates to {type: "object", properties: {}}, and a class whose opening
\* brace has no closing brace is left out of the execute string; neither
\* raises an error or prints a warning, and the tool is emitted.
UndeclaredAndUnclosedAreSilent ==
    lastRun # "none"
    => /\ lastRun = "ok"
       /\ warnings = 0
       /\ \A n \in 1..Len(indexTs.items) :
             (IsInlineTool(indexTs.items[n]) /\ WellFormed(indexTs.items[n]))
             => \E k \in 1..Len(deployJson.tools) :
                   /\ deployJson.tools[k].name = DeclaredName(indexTs.items[n])
                   /\ ~SchemaDeclared(IndexContent(indexTs),
                                      SchemaNameOf(indexTs.items[n],
                                                   "inputSchema"))
                      => IsEmptySchema(deployJson.tools[k].inputSchema)
                   /\ ~SchemaDeclared(IndexContent(indexTs),
                                      SchemaNameOf(indexTs.items[n],
                                                   "outputSchema"))
                      => IsEmptySchema(deployJson.tools[k].outputSchema)
                   /\ \A c \in OpenClasses(IndexContent(indexTs)) :
                         ~Includes(deployJson.tools[k].execute,
                                   <<"class", " ">> \o c)

\* A compiled tool that instantiates a class whose brace is never closed
\* and takes its schemas from identifiers nothing declares
CompiledWithUnclosedClass ==
    /\ lastRun = "ok"
    /\ OpenClasses(IndexContent(indexTs)) = {<<"Gamma">>}
    /\ \E k \in 1..Len(deployJson.tools) :
          /\ deployJson.tools[k].name = <<"gamma">>
          /\ IsEmptySchema(deployJson.tools[k].inputSchema)
          /\ Includes(deployJson.tools[k].execute, <<"new", " ", "Gamma">>)

\* ------------------------------------------------------------------------
\* Claims on the order of the bundler calls
\* ------------------------------------------------------------------------

\* C27: within one compile at most one bundler call is in progress at any
\* time, so two calls never hold the same entry file .lua/<package>-entry.js
\* at the same time.
OneBundleAtATime ==
    /\ Cardinality(running) <= 1
    /\ \A r1, r2 \in running : r1.entry = r2.entry => r1 = r2

\* A bundler call in progress on an entry file that an earlier call of the
\* same compile used
BundlingSamePackageAgain ==
    \E r \in running :
        \E i \in 1..(r.id - 1) : queue.launched[i] = r.entry

\* ------------------------------------------------------------------------
\* Claims on the output directory over several runs
\* ------------------------------------------------------------------------

\* C28: after any sequence of successful compiles, .lua holds per-tool
\* files only for the tools of the latest manifest: the file of a tool that
\* a later compile no longer emits does not remain.
ToolFilesOnlyForManifest ==
    lastRun = "ok" =>
        \A n \in DOMAIN toolFiles :
            \E k \in 1..Len(deployJson.tools) : deployJson.tools[k].name = n

\* ------------------------------------------------------------------------
\* Claims on the service properties of a class-based tool
\* ------------------------------------------------------------------------

\* The service properties a tool file assigns: the pairs <<p, C>> of its
\* statements this.p = new C(
ServiceProperties(t) ==
    {<<t[i + 2], t[i + 8]>> :
        i \in {j \in 1..(Len(t) - 9) :
                  StartsWithAt(t, j, <<"this", ".">>)
                  /\ StartsWithAt(t, j + 3, <<" ", "=", " ", "new", " ">>)
                  /\ t[j + 9] = "("}}

\* const p = new C();
ServiceBinding(pc) ==
    <<"const", " ", pc[1], " ", "=", " ", "new", " ", pc[2], "(", ")", ";">>

\* The tool file a class-based tool of the manifest was compiled from
IsFileOf(text, name) ==
    Includes(text, <<"this", ".", "name", " ", "=", " ", "\"">> \o name
                   \o <<"\"">>)

\* C29: for a class-based tool, every service property this.p = new C(...)
\* of the constructor yields a statement const p = new C(); in the execute
\* string, outside and after the definition of C and before any use of p,
\* and no this.p is left in the string; also for a tool with more than one
\* service property.
ServicePropertiesBound ==
    \A k \in 1..Len(deployJson.tools) : \A f \in DOMAIN files :
        IsFileOf(files[f].text, deployJson.tools[k].name)
        => /\ ~Includes(deployJson.tools[k].execute, <<"this", ".">>)
           /\ \A pc \in ServiceProperties(files[f].text) :
                 \E i \in 1..Len(deployJson.tools[k].execute) :
                    /\ StartsWithAt(deployJson.tools[k].execute, i,
                                    ServiceBinding(pc))
                    /\ Depth(deployJson.tools[k].execute, i) = 1
                    /\ \E j \in 1..(i - 1) :
                          StartsWithAt(deployJson.tools[k].execute, j,
                                       <<"class", " ", pc[2]>>)
                    /\ \A u \in 1..(i - 1) :
                          ~StartsWithAt(deployJson.tools[k].execute, u,
                                        <<pc[1], ".">>)

\* ------------------------------------------------------------------------
\* Claims on the inlined functions and instantiations
\* ------------------------------------------------------------------------

\* An item of index.ts that is a top-level function declaration
IsFunctionItem(item) ==
    \/ StartsWith(item, <<"function", " ">>)
    \/ StartsWith(item, <<"async", " ", "function", " ">>)

FunctionName(item) ==
    item[First({i \in 1..Len(item) : item[i] = "function"}) + 2]

\* The declaration up to its closing parenthesis: the async modifier, the
\* name and the parameter list
FunctionHeader(item) ==
    SubSeq(item, 1, First({i \in 1..Len(item) : item[i] = ")"}))

\* The lines between the braces of the declaration
FunctionBody(item) ==
    SubSeq(item, First({i \in 1..Len(item) : item[i] = "{"}) + 2,
           Len(item) - 3)

\* An item of index.ts that is a top-level instantiation
\* const v = new C(args);
IsInstantiationItem(item) ==
    /\ Len(item) > 9
    /\ item[1] \in Decl
    /\ SubSeq(item, 4, 8) = <<" ", "=", " ", "new", " ">>

\* C30: every top-level function whose name appears in the execute body is
\* inlined with the parameter list, the async modifier and the body of its
\* source declaration, and every inlined instantiation keeps the
\* constructor arguments of its source statement.
FunctionsAndArgumentsKept ==
    \A n \in 1..Len(indexTs.items) : \A k \in 1..Len(deployJson.tools) :
        (/\ IsInlineTool(indexTs.items[n]) /\ WellFormed(indexTs.items[n])
         /\ DeclaredName(indexTs.items[n]) = deployJson.tools[k].name)
        => \A d \in 1..Len(indexTs.items) :
              /\ (/\ IsFunctionItem(indexTs.items[d])
                  /\ Includes(DeclaredBody(indexTs.items[n]),
                              <<FunctionName(indexTs.items[d])>>))
                 => /\ Includes(deployJson.tools[k].execute,
                                StripTypes(FunctionHeader(indexTs.items[d])))
                    /\ ~Includes(deployJson.tools[k].execute,
                                 <<"async", " ">>
                                 \o FunctionHeader(indexTs.items[d]))
                       \/ StartsWith(indexTs.items[d], <<"async">>)
                    /\ Includes(deployJson.tools[k].execute,
                                Indent(FunctionBody(indexTs.items[d])))
              /\ (/\ IsInstantiationItem(indexTs.items[d])
                  /\ Includes(DeclaredBody(indexTs.items[n]),
                              <<indexTs.items[d][3]>>))
                 => Includes(deployJson.tools[k].execute,
                             SubSeq(indexTs.items[d], 1,
                                    Len(indexTs.items[d]) - 1))

====
